---- MODULE Spec2Model ----
(***************************************************************************)
(* The "Secure Vault" backend: server.js (routes), security.js (perimeter  *)
(* middleware), validation.js (validators), database.js (sql.js ledger).   *)
(* One Node.js process: every handler runs to completion between awaits,   *)
(* so one action is one synchronous stretch of a handler.                  *)
(***************************************************************************)
EXTENDS Integers, Sequences, FiniteSets, TLC

(***************************************************************************)
(* JavaScript values, as far as the handlers look at them.                 *)
(***************************************************************************)
Str(s) == [t |-> "str", s |-> s, n |-> 0]
Num(n) == [t |-> "num", s |-> "", n |-> n]
NaN == [t |-> "nan", s |-> "", n |-> 0]
Undefined == [t |-> "undef", s |-> "", n |-> 0]
JsNull == [t |-> "null", s |-> "", n |-> 0]

\* The characters of the strings the model uses, first to last.
Chars(s) ==
  CASE s = "" -> <<>>
    [] s = "Jane" -> <<"J", "a", "n", "e">>
    [] s = "  " -> <<" ", " ">>
    [] s = "j@e.c" -> <<"j", "@", "e", ".", "c">>
    [] s = "j@e" -> <<"j", "@", "e">>
    [] s = "4111111111111111" ->
         <<"4", "1", "1", "1", "1", "1", "1", "1", "1", "1", "1", "1", "1", "1", "1", "1">>
    [] s = "4111111111111112" ->
         <<"4", "1", "1", "1", "1", "1", "1", "1", "1", "1", "1", "1", "1", "1", "1", "2">>
    [] s = "12/30" -> <<"1", "2", "/", "3", "0">>
    [] s = "01/20" -> <<"0", "1", "/", "2", "0">>
    [] s = "123" -> <<"1", "2", "3">>
    [] s = "12" -> <<"1", "2">>
    [] s = "5" -> <<"5">>
    [] s = "x" -> <<"x">>
    [] s = "N/A" -> <<"N", "/", "A">>
    [] s = "s1" -> <<"s", "1">>
    [] s = "adm" -> <<"a", "d", "m">>
    [] s = "4111 1111 1111 1111" ->
         <<"4", "1", "1", "1", " ", "1", "1", "1", "1", " ", "1", "1", "1", "1", " ", "1", "1", "1", "1">>
    [] s = "4111-1111-1111-1111" ->
         <<"4", "1", "1", "1", "-", "1", "1", "1", "1", "-", "1", "1", "1", "1", "-", "1", "1", "1", "1">>
    [] s = "4111111111111111x" ->
         <<"4", "1", "1", "1", "1", "1", "1", "1", "1", "1", "1", "1", "1", "1", "1", "1", "x">>
    [] s = "1411111111111111" ->
         <<"1", "4", "1", "1", "1", "1", "1", "1", "1", "1", "1", "1", "1", "1", "1", "1">>
    [] s = "422222222222" ->
         <<"4", "2", "2", "2", "2", "2", "2", "2", "2", "2", "2", "2">>
    [] s = "4222222222222" ->
         <<"4", "2", "2", "2", "2", "2", "2", "2", "2", "2", "2", "2", "2">>
    [] s = "4222222222222222224" ->
         <<"4", "2", "2", "2", "2", "2", "2", "2", "2", "2", "2", "2", "2", "2", "2", "2", "2", "2", "4">>
    [] s = "42222222222222222228" ->
         <<"4", "2", "2", "2", "2", "2", "2", "2", "2", "2", "2", "2", "2", "2", "2", "2", "2", "2", "2", "8">>
    [] s = "abcd" ->
         <<"a", "b", "c", "d">>
    [] s = "11/26" ->
         <<"1", "1", "/", "2", "6">>
    [] s = "10/26" ->
         <<"1", "0", "/", "2", "6">>
    [] s = "12/26" ->
         <<"1", "2", "/", "2", "6">>
    [] s = "12/25" ->
         <<"1", "2", "/", "2", "5">>
    [] s = "01/27" ->
         <<"0", "1", "/", "2", "7">>
    [] s = "00/30" ->
         <<"0", "0", "/", "3", "0">>
    [] s = "13/30" ->
         <<"1", "3", "/", "3", "0">>
    [] s = "1/30" ->
         <<"1", "/", "3", "0">>
    [] s = "12/2030" ->
         <<"1", "2", "/", "2", "0", "3", "0">>
    [] s = "12-30" ->
         <<"1", "2", "-", "3", "0">>
    [] s = "11/99" ->
         <<"1", "1", "/", "9", "9">>
    [] s = "research-session" ->
         <<"r", "e", "s", "e", "a", "r", "c", "h", "-", "s", "e", "s", "s", "i", "o", "n">>
    [] s = "nnnnnnnnnnnnnnnnnnnnnnnnnnnnnnnnnnnnnnnnnnnnnnnnnnnnnnnnnnnnnnnnnnnnnnnnnnnnnnnnnnnnnnnnnnnnnnnnnnnnnnnnnnnnnnnnnnnnnnnn" ->
         [i \in 1..120 |-> "n"]

Digits == {"0", "1", "2", "3", "4", "5", "6", "7", "8", "9"}

DigitVal(c) ==
  CASE c = "0" -> 0 [] c = "1" -> 1 [] c = "2" -> 2 [] c = "3" -> 3
    [] c = "4" -> 4 [] c = "5" -> 5 [] c = "6" -> 6 [] c = "7" -> 7
    [] c = "8" -> 8 [] c = "9" -> 9

\* !v of JavaScript: undefined, null, "", 0 and NaN are falsy.
Falsy(v) ==
  \/ v.t = "undef"
  \/ v.t = "null"
  \/ v.t = "nan"
  \/ v.t = "str" /\ v.s = ""
  \/ v.t = "num" /\ v.n = 0

RECURSIVE TrimLeft(_)
TrimLeft(s) == IF s # <<>> /\ Head(s) = " " THEN TrimLeft(Tail(s)) ELSE s

RECURSIVE TrimRight(_)
TrimRight(s) ==
  IF s # <<>> /\ s[Len(s)] = " " THEN TrimRight(SubSeq(s, 1, Len(s) - 1)) ELSE s

\* String.prototype.trim
Trim(s) == TrimRight(TrimLeft(s))

RECURSIVE DecimalValue(_)
DecimalValue(s) ==
  IF s = <<>> THEN 0
  ELSE 10 * DecimalValue(SubSeq(s, 1, Len(s) - 1)) + DigitVal(s[Len(s)])

\* Number(string): surrounding white space is dropped, "" is 0, a run of
\* decimal digits is its value and anything else is NaN.
ToNumber(s) ==
  LET u == Trim(Chars(s)) IN
  IF \A i \in 1..Len(u) : u[i] \in Digits THEN Num(DecimalValue(u)) ELSE NaN

(***************************************************************************)
(* validation.js                                                           *)
(***************************************************************************)
StripNonDigits(s) == SelectSeq(Chars(s), LAMBDA c : c \in Digits)

\* The loop of isValidLuhn: i runs from the last digit down to the first,
\* isEven flips at each digit.
RECURSIVE LuhnLoop(_, _, _, _)
LuhnLoop(digits, i, isEven, sum) ==
  IF i < 1 THEN sum
  ELSE LET d == DigitVal(digits[i])
           doubled == IF 2 * d > 9 THEN 2 * d - 9 ELSE 2 * d
       IN LuhnLoop(digits, i - 1, ~isEven, sum + (IF isEven THEN doubled ELSE d))

\* A checksum test that does not look at the number of digits.
isValidLuhnAnyLength(cardNumber) ==
  /\ cardNumber.t = "str"
  /\ LET digits == StripNonDigits(cardNumber.s) IN
     LuhnLoop(digits, Len(digits), FALSE, 0) % 10 = 0

isValidLuhn(cardNumber) ==
  /\ cardNumber.t = "str"
  /\ LET digits == StripNonDigits(cardNumber.s) IN
     /\ Len(digits) >= 13
     /\ Len(digits) <= 19
     /\ LuhnLoop(digits, Len(digits), FALSE, 0) % 10 = 0

isValidAmount(amount) ==
  LET n == IF amount.t = "str" THEN ToNumber(amount.s) ELSE amount IN
  n.t = "num" /\ n.n > 0

\* An expiry test that wants a month after the current one.
isValidExpiryAfterThisMonth(expiry, today) ==
  /\ expiry.t = "str"
  /\ LET e == Chars(expiry.s) IN
     /\ Len(e) = 5
     /\ e[1] \in Digits /\ e[2] \in Digits /\ e[3] = "/"
     /\ e[4] \in Digits /\ e[5] \in Digits
     /\ LET month == DecimalValue(SubSeq(e, 1, 2))
            year == 2000 + DecimalValue(SubSeq(e, 4, 5))
        IN /\ ~(month < 1 \/ month > 12)
           /\ ~(year < today.year \/ (year = today.year /\ month <= today.month))

isValidExpiry(expiry, today) ==
  /\ expiry.t = "str"
  /\ LET e == Chars(expiry.s) IN
     /\ Len(e) = 5
     /\ e[1] \in Digits /\ e[2] \in Digits /\ e[3] = "/"
     /\ e[4] \in Digits /\ e[5] \in Digits
     /\ LET month == DecimalValue(SubSeq(e, 1, 2))
            year == 2000 + DecimalValue(SubSeq(e, 4, 5))
        IN /\ ~(month < 1 \/ month > 12)
           /\ ~(year < today.year \/ (year = today.year /\ month < today.month))

isValidCVV(cvv) ==
  /\ cvv.t = "str"
  /\ LET c == Trim(Chars(cvv.s)) IN
     /\ Len(c) \in {3, 4}
     /\ \A i \in 1..Len(c) : c[i] \in Digits

\* /.+@.+\..+/ on the trimmed value
isValidEmail(email) ==
  /\ email.t = "str"
  /\ LET trimmed == Trim(Chars(email.s)) IN
     /\ trimmed # <<>>
     /\ \E i, j \in 1..Len(trimmed) :
          /\ i > 1 /\ trimmed[i] = "@"
          /\ j > i + 1 /\ trimmed[j] = "."
          /\ j < Len(trimmed)

(***************************************************************************)
(* Bounds of the model and constants of the program                        *)
(***************************************************************************)
MaxInflight == 2      \* requests parked on `await ensureInitialized()`
MaxLedger == 2        \* rows the transactions table may reach
NumTxnIds == 2        \* distinct values the generated "TXN-..." id may take
MaxClock == 1         \* values of Date.now() beyond the start
MaxOver == 1          \* requests counted beyond the rate limit
LowRateLimitMax == 1   \* a low RATE_LIMIT_MAX
MaxGenerated == 2     \* calls of crypto.generateKeyPairSync
MaxStarts == 3        \* starts of the process
DefaultRateLimitMax == 5

Clients == {"c1", "c2"}
TxnIds == 1..NumTxnIds

(***************************************************************************)
(* Sample field values of a decrypted payload                              *)
(***************************************************************************)
NameJane == Str("Jane")
NameBlank == Str("  ")
EmailOk == Str("j@e.c")
EmailNoDot == Str("j@e")
CardOk == Str("4111111111111111")
CardBadSum == Str("4111111111111112")
\* Card numbers a form may hold: grouped by spaces or by dashes, followed by
\* a letter, with the first two digits swapped, of 12, 13, 19 and 20 digits
\* with a checksum that is a multiple of 10, and of no digit at all
CardSpaces == Str("4111 1111 1111 1111")
CardDashes == Str("4111-1111-1111-1111")
CardLetter == Str("4111111111111111x")
CardSwapped == Str("1411111111111111")
Card12 == Str("422222222222")
Card13 == Str("4222222222222")
Card19 == Str("4222222222222222224")
Card20 == Str("42222222222222222228")
CardWord == Str("abcd")
ExpiryOk == Str("12/30")
ExpiryPast == Str("01/20")
CvvOk == Str("123")
CvvShort == Str("12")
NA == Str("N/A")
\* a name of 120 characters
NameLong == Str("nnnnnnnnnnnnnnnnnnnnnnnnnnnnnnnnnnnnnnnnnnnnnnnnnnnnnnnnnnnnnnnnnnnnnnnnnnnnnnnnnnnnnnnnnnnnnnnnnnnnnnnnnnnnnnnnnnnnnnnn")

\* new Date() of the validators: the calendar month of the run
Today == [year |-> 2026, month |-> 11]

Payload(fullName, email, cardNumber, expiry, cvv, amount) ==
  [fullName |-> fullName, email |-> email, cardNumber |-> cardNumber,
   expiry |-> expiry, cvv |-> cvv, amount |-> amount]

GoodPayload(amount) == Payload(NameJane, EmailOk, CardOk, ExpiryOk, CvvOk, amount)
EmptyPayload ==
  Payload(Undefined, Undefined, Undefined, Undefined, Undefined, Undefined)

ValidPayloads == {GoodPayload(Num(99)), GoodPayload(Str("5"))}

InvalidPayloads ==
  { Payload(NameBlank, EmailOk, CardOk, ExpiryOk, CvvOk, Num(99)),
    Payload(NameJane, EmailNoDot, CardOk, ExpiryOk, CvvOk, Num(99)),
    Payload(NameJane, EmailOk, CardBadSum, ExpiryOk, CvvOk, Num(99)),
    Payload(NameJane, EmailOk, CardOk, ExpiryPast, CvvOk, Num(99)),
    Payload(NameJane, EmailOk, CardOk, ExpiryOk, CvvShort, Num(99)),
    Payload(NameJane, EmailOk, CardOk, ExpiryOk, CvvOk, Num(0)),
    Payload(NameJane, EmailOk, CardOk, ExpiryOk, CvvOk, Str("x")),
    Payload(NameJane, EmailNoDot, CardOk, ExpiryOk, CvvShort, Num(0)),
    Payload(Num(7), EmailOk, CardOk, ExpiryOk, CvvOk, Num(99)),
    EmptyPayload }

Payloads == ValidPayloads \cup InvalidPayloads

\* Card numbers and expiry dates put to the checks: each in a payload that
\* is valid up to the CVV and has no amount to pay, so that the answer
\* shows what the check said and nothing is stored
CardNumbers ==
  {CardOk, CardBadSum, CardSpaces, CardDashes, CardLetter, CardSwapped,
   Card12, Card13, Card19, Card20, CardWord}
Expiries ==
  {ExpiryOk, ExpiryPast, Str("11/26"), Str("10/26"), Str("12/26"), Str("12/25"),
   Str("01/27"), Str("00/30"), Str("13/30"), Str("1/30"), Str("12/2030"), Str("12-30"),
   Str("11/99")}
FieldPayloads ==
  {Payload(NameJane, EmailOk, c, ExpiryOk, CvvOk, Num(0)) : c \in CardNumbers}
    \cup {Payload(NameJane, EmailOk, CardOk, e, CvvOk, Num(0)) : e \in Expiries}
    \cup {Payload(NameJane, EmailOk, CardDashes, ExpiryOk, CvvOk, Num(99))}

\* What the checkout page may hand to encryptPaymentData: a good payment,
\* one with a card number that fails the checksum, one whose cart total
\* is NaN, and one with a name too long for one RSA block
PaymentDatas ==
  { GoodPayload(Num(99)),
    Payload(NameJane, EmailOk, CardBadSum, ExpiryOk, CvvOk, Num(99)),
    GoodPayload(NaN),
    Payload(NameLong, EmailOk, CardOk, ExpiryOk, CvvOk, Num(99)) }

(***************************************************************************)
(* Keys and ciphertexts.  A key pair is named by an id; a ciphertext made  *)
(* by RSA-OAEP under a public key opens only under the private key of the  *)
(* same pair.                                                              *)
(***************************************************************************)
\* The pairs crypto.generateKeyPairSync gives, first to last: each call
\* gives a pair no call gave before.
GeneratedId(n) == <<"G1", "G2", "G3", "G4">>[n]
KeyIds == {"K1", "K2"} \cup {GeneratedId(n) : n \in 1..MaxGenerated}
KeyPair(k) == [id |-> k, publicKey |-> <<"PUBLIC", k>>, privateKey |-> <<"PRIVATE", k>>]
NoKey == <<"NONE", "">>

\* What the decrypted bytes are: not JSON, the JSON value null, or an object.
Plaintext(form, obj) == [form |-> form, obj |-> obj]
Plaintexts ==
  {Plaintext("notjson", EmptyPayload), Plaintext("null", EmptyPayload)}
    \cup {Plaintext("object", p) : p \in Payloads}

\* JSON.stringify of a member's value: NaN is written null, a member whose
\* value is undefined is left out (Undefined stands for "no such member"),
\* strings and finite numbers are written as they are.
JsonOf(v) == IF v.t \in {"nan", "null"} THEN JsNull ELSE v
JSONStringify(payload) ==
  Plaintext("object", [f \in DOMAIN payload |-> JsonOf(payload[f])])

\* JSON.parse of an object's text, then the destructuring of the six
\* members: a string, a number or null as written, undefined for a member
\* that is not there.
JSONParse(pt) ==
  [f \in DOMAIN pt.obj |->
     IF pt.obj[f].t \in {"str", "num", "null"} THEN pt.obj[f] ELSE Undefined]

RECURSIVE DecimalDigits(_)
DecimalDigits(n) == IF n < 10 THEN 1 ELSE 1 + DecimalDigits(n \div 10)

\* The bytes of a member in the text: `"name":` and the value, a string in
\* quotes (the samples are ASCII and need no escapes), a number in decimal
\* digits, or null; nothing for a member left out.
MemberBytes(name, v) ==
  CASE v.t = "undef" -> 0
    [] v.t = "str" -> Len(name) + 3 + Len(Chars(v.s)) + 2
    [] v.t = "num" -> Len(name) + 3 + DecimalDigits(v.n)
    [] OTHER -> Len(name) + 3 + 4

\* The length of the text: the braces, the members and the commas between
\* them.
ByteLength(pt) ==
  LET o == pt.obj
      members == Cardinality({f \in DOMAIN o : o[f].t # "undef"})
  IN 2 + (IF members = 0 THEN 0 ELSE members - 1)
       + MemberBytes(<<"c", "a", "r", "d", "N", "u", "m", "b", "e", "r">>, o.cardNumber)
       + MemberBytes(<<"e", "x", "p", "i", "r", "y">>, o.expiry)
       + MemberBytes(<<"c", "v", "v">>, o.cvv)
       + MemberBytes(<<"f", "u", "l", "l", "N", "a", "m", "e">>, o.fullName)
       + MemberBytes(<<"e", "m", "a", "i", "l">>, o.email)
       + MemberBytes(<<"a", "m", "o", "u", "n", "t">>, o.amount)

\* req.body.ciphertext: absent, not a string, "", a string that is no
\* ciphertext of any key, or the encryption of a plaintext under a key.
Body(kind, key, pt) == [kind |-> kind, key |-> key, pt |-> pt]
Encrypt(publicKey, pt) == Body("enc", publicKey, pt)
NoBody == Body("none", NoKey, Plaintext("notjson", EmptyPayload))
Bodies ==
  {Body(k, NoKey, Plaintext("notjson", EmptyPayload)) :
     k \in {"undefined", "number", "empty", "garbage"}}
    \cup {Encrypt(KeyPair("K1").publicKey, pt) : pt \in Plaintexts}
    \cup {Encrypt(KeyPair("K2").publicKey, Plaintext("object", GoodPayload(Num(99))))}

\* The bodies of a run that is about the ledger: no ciphertext, one that
\* does not decrypt, one invalid payload and a valid one.
CoreBodies ==
  {Body("undefined", NoKey, Plaintext("notjson", EmptyPayload)),
   Body("garbage", NoKey, Plaintext("notjson", EmptyPayload)),
   Encrypt(KeyPair("K1").publicKey,
           Plaintext("object", Payload(NameJane, EmailOk, CardBadSum, ExpiryOk, CvvOk, Num(99)))),
   Encrypt(KeyPair("K1").publicKey, Plaintext("object", GoodPayload(Num(99))))}

\* The bodies of a run that is about the rate limit.
FewBodies ==
  {Body("garbage", NoKey, Plaintext("notjson", EmptyPayload)),
   Encrypt(KeyPair("K1").publicKey, Plaintext("object", GoodPayload(Num(99))))}

\* A body that is no ciphertext, and a valid payment under the key of each
\* pair a client may have been handed
KeyBodies ==
  {Body("garbage", NoKey, Plaintext("notjson", EmptyPayload))}
    \cup {Encrypt(KeyPair(k).publicKey, Plaintext("object", GoodPayload(Num(99)))) :
            k \in {"K1", "K2", GeneratedId(1)}}

\* The bodies of a run that is about the card number and the expiry date
FieldBodies ==
  FewBodies
    \cup {Encrypt(KeyPair("K1").publicKey, Plaintext("object", p)) : p \in FieldPayloads}

BodiesOf(workload) ==
  CASE workload = "core" -> CoreBodies
    [] workload = "fields" -> FieldBodies
    [] workload \in {"few", "admin", "origins", "queries", "stats", "session", "login"} -> FewBodies
    [] workload = "keys" -> KeyBodies
    [] OTHER -> Bodies

\* Admin credentials: the one in ADMIN_API_KEY and another one
AdminKey == Str("adm")
OtherKey == Str("x")

\* The session header of a request: absent, empty, or some value.
SessionHeaders == {Undefined, Str(""), Str("s1")}

(***************************************************************************)
(* State                                                                   *)
(***************************************************************************)
VARIABLES
  cfg,          \* process.env as read at start-up
  env,          \* the surroundings: whether writes to the disk can fail, the
                \* clients there are and which requests they send
  keys,         \* keyManager: cachedPublicKey, cachedPrivateKey
  db,           \* database.js `db`: null, open, or open on an unreadable file
  dbFile,       \* the file at DB_PATH
  jsonFile,     \* the legacy file at OLD_JSON_PATH
  initPromise, \* database.js `initPromise`: "pending" or "resolved"
  migration,    \* migrateFromJSON parked at its await: "idle" or "pending"
  waiters,      \* payment handlers parked at `await ensureInitialized()`, oldest first
  hits,         \* express-rate-limit: requests counted per client in the window
  now,          \* Date.now()
  lastResp,     \* the response written by the last step, NoResp if none
  admitted,     \* history: requests per client the limiter let through in the window
  window,       \* history: per client, what its rate-limit window has seen
  answered,     \* history: per transaction id, a success answer given for it
  keyFiles,     \* the files at PRIVATE_KEY_PATH and PUBLIC_KEY_PATH
  generated,    \* calls of crypto.generateKeyPairSync so far
  proc,         \* the process: "up", or "down" after a start that threw
  starts,       \* history: starts of the process so far
  seen,         \* history: what the request answered by the last step came with
                \* (its Origin, the admin credentials the guard read) and the
                \* Access-Control-Allow-Origin header put on its answer
  clientKey,    \* the browser client: the public key in its sessionStorage
  fetch,        \* the browser client: its clock, the rest of the sessionStorage
                \* entry, and where its call of fetchPublicKey stands
  admin         \* the browser of the admin: the admin_api_key item of its
                \* localStorage and where the login form's handleSubmit stands

vars ==
  <<cfg, env, keys, db, dbFile, jsonFile, initPromise, migration, waiters, hits, now,
    lastResp, admitted, window, answered, keyFiles, generated, proc, starts,
    seen, clientKey, fetch, admin>>

Stats(totalCount, totalAmount, averageAmount) ==
  [totalCount |-> totalCount, totalAmount |-> totalAmount,
   averageAmount |-> averageAmount]

\* A quotient that need not be whole: numerator and denominator
Ratio(num, den) == [num |-> num, den |-> den]
NoStats == Stats(0, 0, Ratio(0, 1))

\* The filters of getAllTransactions; None is a filter not given.
None == -1
Filters(startDate, endDate, minAmount, maxAmount, limit, offset) ==
  [startDate |-> startDate, endDate |-> endDate, minAmount |-> minAmount,
   maxAmount |-> maxAmount, limit |-> limit, offset |-> offset]
NoFilters == Filters(None, None, None, None, None, None)

\* header is the x-session-id value the session guard read, Unread when the
\* guard is switched off and passes the request on without looking.
Unread == [t |-> "unread", s |-> "", n |-> 0]

\* What a request was answered with: res.status(..).json(..), the stages
\* of the pipeline the request went through on the way, and for a query
\* the filters it came with.
Resp(op, status, result, message, transactionId, rows, stages) ==
  [op |-> op, status |-> status, result |-> result,
   message |-> message, transactionId |-> transactionId, rows |-> rows,
   stages |-> stages, publicKey |-> NoKey, stats |-> NoStats,
   header |-> Unread, body |-> NoBody, threw |-> "", logs |-> {},
   filters |-> NoFilters]

\* A line written with console.log / console.error: its fixed text, and
\* what it shows of the request and of the keys besides ("transactionId",
\* "plaintext", "privateKey").
Log(line, shows) == [line |-> line, shows |-> shows]
Logged(resp, logs) == [resp EXCEPT !.logs = logs]

\* The response with what was read of the request it answers (the session
\* header by the guard, the body by the handler) and with what
\* saveTransaction threw for it.
HeaderRead(header) == IF cfg.requireSession THEN header ELSE Unread
\* The x-session-id values requests come with; where the guard is off and
\* nothing reads the header, requests without one stand for all; where the
\* run is about the guard, the value the shop's client sends is among them.
Headers ==
  IF ~cfg.requireSession THEN {Undefined}
  ELSE IF env.workload = "session" THEN SessionHeaders \cup {Str("research-session")}
  ELSE SessionHeaders
For(resp, header, body) == [resp EXCEPT !.header = HeaderRead(header), !.body = body]
Threw(resp, error) == [resp EXCEPT !.threw = error]

NoResp == Resp("none", 0, "", "", 0, <<>>, {})

(***************************************************************************)
(* security.js                                                             *)
(***************************************************************************)
\* createCorsMiddleware: cors({origin, credentials}) answers no request
\* itself (preflights apart); it sets Access-Control-Allow-Origin, to the
\* configured FRONTEND_ORIGIN or, with `origin: true`, to the origin the
\* request names, and calls next().
corsMiddleware(origin) ==
  [verdict |-> "next",
   allowOrigin |-> IF Falsy(cfg.frontendOrigin) THEN origin ELSE cfg.frontendOrigin]

\* The admin credential as far as the guard read it: with ADMIN_API_KEY not
\* set the guard passes the request on without looking.
AdminKeyRead(key) == IF Falsy(cfg.adminApiKey) THEN Unread ELSE key
Saw(origin, headerKey, queryKey) ==
  [origin |-> origin, allowOrigin |-> corsMiddleware(origin).allowOrigin,
   adminHeader |-> AdminKeyRead(headerKey), adminQuery |-> AdminKeyRead(queryKey)]
NothingSeen ==
  [origin |-> Undefined, allowOrigin |-> Undefined,
   adminHeader |-> Unread, adminQuery |-> Unread]

\* A guard that lets every request through.
sessionGuardOff(header) == "next"

\* A guard that lets through the value of the shop's client only.
sessionGuardWantsValue(header) ==
  IF ~cfg.requireSession THEN "next"
  ELSE IF header # Str("research-session") THEN "401"
  ELSE "next"

\* createSessionHeaderGuard: "next" or the 401 it answers
sessionGuard(header) ==
  IF ~cfg.requireSession THEN "next"
  ELSE IF Falsy(header) THEN "401"
  ELSE "next"

\* A limiter that lets one request too many through.
paymentRateLimiterOneMore(totalHits) ==
  IF totalHits > cfg.rateMax + 1 THEN "429" ELSE "next"

\* createPaymentRateLimiter: express-rate-limit answers 429 once the
\* client's count in the window, this request included, exceeds max.
paymentRateLimiter(totalHits) ==
  IF totalHits > cfg.rateMax THEN "429" ELSE "next"

\* An admin guard that lets every request through.
adminAuthOpen(headerKey, queryKey) == "next"

\* createAdminAuthGuard: `req.header('x-admin-api-key') || req.query.apiKey`
\* against ADMIN_API_KEY; a pass-through when that is not set.
adminAuth(headerKey, queryKey) ==
  LET providedKey == IF Falsy(headerKey) THEN queryKey ELSE headerKey IN
  IF Falsy(cfg.adminApiKey) THEN "next"
  ELSE IF Falsy(providedKey) THEN "401"
  ELSE IF providedKey # cfg.adminApiKey THEN "403"
  ELSE "next"

(***************************************************************************)
(* keyManager                                                              *)
(***************************************************************************)
\* Texts that are not a PEM document: null and undefined, the empty
\* string, the base64 form of a PEM document, any other text, and the bytes
\* other text decodes to.
Null == <<"NULL", "">>
Unset == <<"UNSET", "">>
EmptyText == <<"EMPTY", "">>
Missing == <<"MISSING", "">>
Base64Of(pem) == <<IF pem[1] = "PRIVATE" THEN "B64PRIVATE" ELSE "B64PUBLIC", pem[2]>>
Text(s) == <<"TEXT", s>>
KeyFalsy(v) == v[1] \in {"NULL", "UNSET", "EMPTY"}

\* `v.startsWith('-----BEGIN')`
StartsWithBegin(v) == v[1] \in {"PRIVATE", "PUBLIC"}

\* Buffer.from(v, 'base64').toString('utf8'): never throws; characters
\* outside the base64 alphabet are skipped, so a text without any decodes
\* to the empty string and other text to bytes that are no PEM document.
Base64Decode(v) ==
  CASE v[1] = "B64PRIVATE" -> <<"PRIVATE", v[2]>>
    [] v[1] = "B64PUBLIC" -> <<"PUBLIC", v[2]>>
    [] v[1] = "TEXT" /\ v[2] = "!" -> EmptyText
    [] OTHER -> <<"JUNK", v[2]>>

\* The two branches of the conditional at ensureKeyPair's environment step
DecodeSecret(v) == IF StartsWithBegin(v) THEN v ELSE Base64Decode(v)

\* cachedPrivateKey and cachedPublicKey
Cache(privateKey, publicKey) == [privateKey |-> privateKey, publicKey |-> publicKey]
NullCache == Cache(Null, Null)

\* The two files and the permission bits of the private one ("" while
\* there is no such file)
KeyFiles(privateKey, publicKey, privateMode) ==
  [privateKey |-> privateKey, publicKey |-> publicKey, privateMode |-> privateMode]

\* fs.writeFileSync(path, data, {mode}): the mode is given to a file the
\* call creates; a file that is there keeps the mode it has.
WrittenMode(oldContent, oldMode, mode) == IF oldContent = Missing THEN mode ELSE oldMode

\* How the writes of generateAndPersistKeyPair can go where the key
\* directory may refuse them: both succeed, the first throws (or mkdirSync
\* before it), or the second throws after the first went through.
KeyWriteOutcomes == IF env.keyDiskFails THEN {"ok", "first", "second"} ELSE {"ok"}


\* What a call of the key manager leaves: the cache, the files, the count
\* of generated pairs, what it threw ("" when it returned) and logged.
KeyResult(cache, files, gen, threw, logs) ==
  [keys |-> cache, files |-> files, generated |-> gen, threw |-> threw, logs |-> logs]

\* A generation that writes only the file that is missing and loads what
\* the two files then hold.
generateMissingFileOnly(cache, files, gen, writes) ==
  LET pair == KeyPair(GeneratedId(gen + 1))
      first == KeyFiles(IF files.privateKey = Missing THEN pair.privateKey
                        ELSE files.privateKey,
                        files.publicKey,
                        WrittenMode(files.privateKey, files.privateMode, "0600"))
      both == [first EXCEPT !.publicKey = IF files.publicKey = Missing THEN pair.publicKey
                                          ELSE files.publicKey]
  IN CASE writes = "first" -> KeyResult(cache, files, gen + 1, "EACCES", {})
       [] writes = "second" -> KeyResult(cache, first, gen + 1, "EACCES", {})
       [] OTHER -> KeyResult(Cache(both.privateKey, both.publicKey), both, gen + 1, "", {})

\* generateAndPersistKeyPair
generateAndPersistKeyPair(cache, files, gen, writes) ==
  LET pair == KeyPair(GeneratedId(gen + 1))
      first == KeyFiles(pair.privateKey, files.publicKey,
                        WrittenMode(files.privateKey, files.privateMode, "0600"))
      both == [first EXCEPT !.publicKey = pair.publicKey]
  IN CASE writes = "first" -> KeyResult(cache, files, gen + 1, "EACCES", {})
       [] writes = "second" -> KeyResult(cache, first, gen + 1, "EACCES", {})
       [] OTHER -> KeyResult(Cache(pair.privateKey, pair.publicKey), both, gen + 1, "",
                             {Log("[keyManager] Generated new RSA-2048 keypair.", {})})

\* A start that makes a new pair whatever it finds.
ensureKeyPairAlwaysGenerates(cache, files, gen, writes) ==
  generateAndPersistKeyPair(cache, files, gen, writes)

\* ensureKeyPair: PRIVATE_KEY and PUBLIC_KEY when both are non-empty (the
\* try block around their decoding has nothing in it that throws), else
\* the two files when both exist, else a new pair.
ensureKeyPair(cache, files, gen, writes) ==
  IF ~KeyFalsy(cfg.privateKey) /\ ~KeyFalsy(cfg.publicKey)
  THEN KeyResult(Cache(DecodeSecret(cfg.privateKey), DecodeSecret(cfg.publicKey)),
                 files, gen, "",
                 {Log("[keyManager] Loaded RSA keypair from environment variables.", {})})
  ELSE IF files.privateKey # Missing /\ files.publicKey # Missing
  THEN KeyResult(Cache(files.privateKey, files.publicKey), files, gen, "",
                 {Log("[keyManager] Loaded RSA keypair from disk.", {})})
  ELSE generateAndPersistKeyPair(cache, files, gen, writes)

\* `if (!cached) ensureKeyPair()` of the two getters
EnsureIf(absent, writes) ==
  IF absent THEN ensureKeyPair(keys, keyFiles, generated, writes)
  ELSE KeyResult(keys, keyFiles, generated, "", {})

\* getPrivateKey: the call's result and, in value, what it returns
getPrivateKey(writes) ==
  LET r == EnsureIf(KeyFalsy(keys.privateKey), writes) IN
  [keys |-> r.keys, files |-> r.files, generated |-> r.generated, threw |-> r.threw,
   logs |-> r.logs, value |-> r.keys.privateKey]

\* A getter that hands out the other half of the pair.
getPublicKeyGivesPrivate(writes) ==
  LET r == EnsureIf(KeyFalsy(keys.publicKey), writes) IN
  [keys |-> r.keys, files |-> r.files, generated |-> r.generated, threw |-> r.threw,
   logs |-> r.logs, value |-> r.keys.privateKey]

\* A getter that runs ensureKeyPair on every call, on a machine whose key
\* files it does not find.
getPublicKeyRegenerates(writes) ==
  LET r == generateAndPersistKeyPair(keys, keyFiles, generated % MaxGenerated, writes) IN
  [keys |-> r.keys, files |-> r.files, generated |-> generated, threw |-> r.threw,
   logs |-> r.logs, value |-> r.keys.publicKey]

\* getPublicKey: the call's result and, in value, what it returns
getPublicKey(writes) ==
  LET r == EnsureIf(KeyFalsy(keys.publicKey), writes) IN
  [keys |-> r.keys, files |-> r.files, generated |-> r.generated, threw |-> r.threw,
   logs |-> r.logs, value |-> r.keys.publicKey]

\* The assignments a call of the key manager makes
KeysBecome(r) ==
  /\ keys' = r.keys
  /\ keyFiles' = r.files
  /\ generated' = r.generated

\* A decryption that opens a ciphertext under any private key.
CanDecryptAnyKey(privateKey, body) == body.kind = "enc"

\* crypto.privateDecrypt with OAEP: the plaintext, when the ciphertext was
\* made under the public key of the pair the private key belongs to.
CanDecrypt(privateKey, body) ==
  /\ body.kind = "enc"
  /\ \E k \in KeyIds :
       KeyPair(k).privateKey = privateKey /\ KeyPair(k).publicKey = body.key

(***************************************************************************)
(* lib/payment.ts and app/checkout/page.tsx: the browser client            *)
(***************************************************************************)
ModulusLength == 2048

\* The longest plaintext RSA-OAEP takes under a key of that length with
\* SHA-1 (20 bytes of digest): k - 2 hLen - 2.
OaepMaxBytes == ModulusLength \div 8 - 2 * 20 - 2

\* The loop of luhnCheck: i runs from the last digit down to the first,
\* isEven flips at each digit.
RECURSIVE LuhnCheckLoop(_, _, _, _)
LuhnCheckLoop(digits, i, isEven, sum) ==
  IF i < 1 THEN sum
  ELSE LET digit == DigitVal(digits[i])
           timesTwo == 2 * digit
       IN LuhnCheckLoop(digits, i - 1, ~isEven,
                        sum + (IF ~isEven THEN digit
                               ELSE IF timesTwo > 9 THEN timesTwo - 9 ELSE timesTwo))

\* luhnCheck of the checkout page, on a string
luhnCheck(cardNumber) ==
  LET digits == SelectSeq(Chars(cardNumber), LAMBDA c : c \in Digits) IN
  /\ ~(Len(digits) < 13 \/ Len(digits) > 19)
  /\ LuhnCheckLoop(digits, Len(digits), FALSE, 0) % 10 = 0

\* The x-session-id every request of the client carries
SessionHeaderValue == Str("research-session")

\* fetchPublicKeyOneAttempt's checks on the handshake's answer: response.ok,
\* a publicKey that is not empty, has 200 characters or more and holds
\* '-----BEGIN PUBLIC KEY-----'
KeyAccepted(resp) == resp.op = "key" /\ resp.status = 200 /\ resp.publicKey[1] = "PUBLIC"

\* encryptPaymentData: the text JSON.stringify gives for the six members,
\* encrypted under the imported key and base64-encoded; it throws when the
\* key is no SPKI document and when the text is longer than OAEP takes.
encryptPaymentData(paymentData, publicKeyPem) ==
  LET text == JSONStringify(paymentData) IN
  IF publicKeyPem[1] # "PUBLIC"
  THEN [threw |-> "Failed to process public key", ciphertext |-> NoBody]
  ELSE IF ByteLength(text) > OaepMaxBytes
  THEN [threw |-> "OperationError", ciphertext |-> NoBody]
  ELSE [threw |-> "", ciphertext |-> Encrypt(publicKeyPem, text)]

(***************************************************************************)
(* database.js                                                             *)
(***************************************************************************)
Row(transactionId, timestamp, amount, cardholderName, cardNumber, expiry, cvv) ==
  [transactionId |-> transactionId, timestamp |-> timestamp, amount |-> amount,
   cardholderName |-> cardholderName, cardNumber |-> cardNumber,
   expiry |-> expiry, cvv |-> cvv]

NullId == 0
NullTimestamp == -1

\* `x || 'N/A'`
OrNA(v) == IF Falsy(v) THEN NA ELSE v

\* Column `amount REAL`: a text that reads as a number is stored as that number.
RealAffinity(v) ==
  IF v.t = "str" /\ ToNumber(v.s).t = "num" /\ Trim(Chars(v.s)) # <<>> THEN ToNumber(v.s) ELSE v

HasId(rows, id) == \E i \in 1..Len(rows) : rows[i].transactionId = id

\* A table without the UNIQUE constraint on transactionId.
SqlInsertNoUnique(rows, row) ==
  IF row.transactionId = NullId \/ row.timestamp = NullTimestamp
       \/ row.amount.t \in {"undef", "nan"}
  THEN [ok |-> FALSE, error |-> "NOT NULL constraint failed", rows |-> rows]
  ELSE [ok |-> TRUE, error |-> "",
        rows |-> Append(rows, [row EXCEPT !.amount = RealAffinity(row.amount)])]

\* INSERT OR REPLACE: a row with the id of an earlier one takes its place.
SqlInsertOrReplace(rows, row) ==
  IF row.transactionId = NullId \/ row.timestamp = NullTimestamp
       \/ row.amount.t \in {"undef", "nan"}
  THEN [ok |-> FALSE, error |-> "NOT NULL constraint failed", rows |-> rows]
  ELSE LET new == [row EXCEPT !.amount = RealAffinity(row.amount)] IN
       [ok |-> TRUE, error |-> "",
        rows |-> IF HasId(rows, row.transactionId)
                 THEN [i \in 1..Len(rows) |->
                         IF rows[i].transactionId = row.transactionId THEN new ELSE rows[i]]
                 ELSE Append(rows, new)]

\* INSERT INTO transactions under the table's constraints:
\* transactionId TEXT UNIQUE NOT NULL, timestamp TEXT NOT NULL, amount REAL NOT NULL.
SqlInsert(rows, row) ==
  IF row.transactionId = NullId \/ row.timestamp = NullTimestamp
       \/ row.amount.t \in {"undef", "nan"}
  THEN [ok |-> FALSE, error |-> "NOT NULL constraint failed", rows |-> rows]
  ELSE IF HasId(rows, row.transactionId)
  THEN [ok |-> FALSE, error |-> "UNIQUE constraint failed", rows |-> rows]
  ELSE [ok |-> TRUE, error |-> "",
        rows |-> Append(rows, [row EXCEPT !.amount = RealAffinity(row.amount)])]

\* saveDatabase: export the whole database over the file; a failed write
\* is logged and swallowed.
saveDatabase(rows, writeOk) ==
  IF writeOk THEN [exists |-> TRUE, corrupt |-> FALSE, rows |-> rows] ELSE dbFile

MsgNotInitialized == "Database not initialized. Call initializeDatabase() first."
MsgDuplicate == "Transaction ID already exists"


\* saveTransaction: what it throws ("" when it returns), the table and the
\* file afterwards, and the lines it and saveDatabase log.
saveTransaction(data, transactionId, writeOk) ==
  IF db.status = "null"
  THEN [threw |-> MsgNotInitialized,
        rows |-> db.rows, file |-> dbFile, logs |-> {}]
  ELSE IF db.status = "corrupt"
  THEN [threw |-> "file is not a database", rows |-> db.rows, file |-> dbFile,
        logs |-> {Log("[database] Error saving transaction:", {})}]
  ELSE LET ins == SqlInsert(db.rows,
                    Row(transactionId, now, data.amount, OrNA(data.fullName),
                        OrNA(data.cardNumber), OrNA(data.expiry), OrNA(data.cvv)))
       IN IF ins.ok
          THEN [threw |-> "", rows |-> ins.rows, file |-> saveDatabase(ins.rows, writeOk),
                logs |-> {Log("[database] Transaction saved:", {"transactionId"})}
                           \cup (IF writeOk THEN {}
                                 ELSE {Log("[database] Error saving database:", {})})]
          ELSE IF ins.error = "UNIQUE constraint failed"
          THEN [threw |-> MsgDuplicate, rows |-> db.rows, file |-> dbFile,
                logs |-> {Log("[database] Transaction ID already exists:", {"transactionId"})}]
          ELSE [threw |-> ins.error, rows |-> db.rows, file |-> dbFile,
                logs |-> {Log("[database] Error saving transaction:", {})}]

\* A lookup that forgets its WHERE clause.
getTransactionByIdAnyRow(transactionId) ==
  IF db.status # "open" \/ db.rows = <<>> THEN <<>> ELSE <<Head(db.rows)>>

\* getTransactionById: the rows it returns, none or one
getTransactionById(transactionId) ==
  IF db.status # "open" THEN <<>>
  ELSE LET found == SelectSeq(db.rows, LAMBDA r : r.transactionId = transactionId)
       IN IF found = <<>> THEN <<>> ELSE <<Head(found)>>

\* The WHERE clause
Matches(r, f) ==
  /\ f.startDate # None => r.timestamp >= f.startDate
  /\ f.endDate # None => r.timestamp <= f.endDate
  /\ f.minAmount # None => r.amount.t = "num" /\ r.amount.n >= f.minAmount
  /\ f.maxAmount # None => r.amount.t = "num" /\ r.amount.n <= f.maxAmount

\* ORDER BY timestamp DESC: every order of the rows that has no earlier
\* row before a later one (SQL leaves the order of equal timestamps open).
OrderedByTimestampDesc(rows) ==
  LET n == Len(rows)
      perms == {p \in [1..n -> 1..n] : \A i, j \in 1..n : i # j => p[i] # p[j]}
  IN { [i \in 1..n |-> rows[p[i]]] : p \in
         {q \in perms : \A i, j \in 1..n :
            i < j => rows[q[i]].timestamp >= rows[q[j]].timestamp} }

\* LIMIT ? and, only next to it, OFFSET ?; 0 is "not given" for both.
Paginate(rows, f) ==
  IF f.limit = None \/ f.limit = 0 THEN rows
  ELSE LET skip == IF f.offset = None \/ f.offset = 0 THEN 0 ELSE f.offset
       IN SubSeq(rows, skip + 1, IF skip + f.limit < Len(rows) THEN skip + f.limit
                                 ELSE Len(rows))

\* getAllTransactions: the row lists it may return
getAllTransactions(f) ==
  IF db.status # "open" THEN {<<>>}
  ELSE {Paginate(o, f) :
          o \in OrderedByTimestampDesc(SelectSeq(db.rows, LAMBDA r : Matches(r, f)))}

RECURSIVE SumAmounts(_)
SumAmounts(rows) ==
  IF rows = <<>> THEN 0
  ELSE (IF Head(rows).amount.t = "num" THEN Head(rows).amount.n ELSE 0)
         + SumAmounts(Tail(rows))

\* Statistics whose average divides by one record too many.
getTransactionStatsOneMore ==
  IF db.status # "open" \/ db.rows = <<>> THEN Stats(0, 0, Ratio(0, 1))
  ELSE Stats(Len(db.rows), SumAmounts(db.rows),
             Ratio(SumAmounts(db.rows), Len(db.rows) + 1))

\* getTransactionStats: COUNT(*), SUM(amount) || 0, AVG(amount) || 0
getTransactionStats ==
  IF db.status # "open" \/ db.rows = <<>> THEN Stats(0, 0, Ratio(0, 1))
  ELSE Stats(Len(db.rows), SumAmounts(db.rows),
             Ratio(SumAmounts(db.rows), Len(db.rows)))

\* The insert loop of migrateFromJSON: a row the table rejects is skipped.
RECURSIVE MigrateRows(_, _)
MigrateRows(rows, txns) ==
  IF txns = <<>> THEN rows
  ELSE LET txn == Head(txns)
           ins == SqlInsert(rows,
                    Row(txn.transactionId, txn.timestamp, txn.amount,
                        OrNA(txn.cardholderName), OrNA(txn.cardNumber),
                        OrNA(txn.expiry), OrNA(txn.cvv)))
       IN MigrateRows(ins.rows, Tail(txns))

(***************************************************************************)
(* server.js: POST /api/process-payment, the synchronous part             *)
(***************************************************************************)
MsgMissing == "Missing or invalid ciphertext in request body."
MsgDecrypt == "Failed to decrypt or validate payment payload."
MsgName == "Cardholder name is required."
MsgEmail == "A valid email address is required."
MsgCard == "Invalid card number."
MsgExpiry == "Invalid expiry date."
MsgCvv == "Invalid CVV."
MsgAmount == "Invalid payment amount."
MsgKey == "Unable to load public key."
MsgSession == "Missing required session header: x-session-id"
MsgRate == "Too many payment attempts, please try again later."
MsgNotFound == "Transaction not found."
MsgAdminMissing ==
  "Admin access requires authentication. Provide x-admin-api-key header or apiKey query parameter."
MsgAdminInvalid == "Invalid admin credentials."

ValidationMessages == {MsgName, MsgEmail, MsgCard, MsgExpiry, MsgCvv, MsgAmount}

\* A handler that forgets the amount check.
ValidateSkipsAmount(p) ==
  IF Falsy(p.fullName) \/ p.fullName.t # "str" \/ Trim(Chars(p.fullName.s)) = <<>> THEN MsgName
  ELSE IF Falsy(p.email) \/ ~isValidEmail(p.email) THEN MsgEmail
  ELSE IF Falsy(p.cardNumber) \/ ~isValidLuhn(p.cardNumber) THEN MsgCard
  ELSE IF Falsy(p.expiry) \/ ~isValidExpiry(p.expiry, Today) THEN MsgExpiry
  ELSE IF Falsy(p.cvv) \/ ~isValidCVV(p.cvv) THEN MsgCvv
  ELSE ""

\* A handler that checks the CVV before the email address.
ValidateCvvBeforeEmail(p) ==
  IF Falsy(p.fullName) \/ p.fullName.t # "str" \/ Trim(Chars(p.fullName.s)) = <<>> THEN MsgName
  ELSE IF Falsy(p.cvv) \/ ~isValidCVV(p.cvv) THEN MsgCvv
  ELSE IF Falsy(p.email) \/ ~isValidEmail(p.email) THEN MsgEmail
  ELSE IF Falsy(p.cardNumber) \/ ~isValidLuhn(p.cardNumber) THEN MsgCard
  ELSE IF Falsy(p.expiry) \/ ~isValidExpiry(p.expiry, Today) THEN MsgExpiry
  ELSE IF ~isValidAmount(p.amount) THEN MsgAmount
  ELSE ""

\* The six checks in the handler's order: the message of the first that
\* fails, "" when all pass.
Validate(p) ==
  IF Falsy(p.fullName) \/ p.fullName.t # "str" \/ Trim(Chars(p.fullName.s)) = <<>> THEN MsgName
  ELSE IF Falsy(p.email) \/ ~isValidEmail(p.email) THEN MsgEmail
  ELSE IF Falsy(p.cardNumber) \/ ~isValidLuhn(p.cardNumber) THEN MsgCard
  ELSE IF Falsy(p.expiry) \/ ~isValidExpiry(p.expiry, Today) THEN MsgExpiry
  ELSE IF Falsy(p.cvv) \/ ~isValidCVV(p.cvv) THEN MsgCvv
  ELSE IF ~isValidAmount(p.amount) THEN MsgAmount
  ELSE ""

\* Validate on the sample payloads, evaluated once
ValidateOf ==
  [p \in Payloads \cup FieldPayloads \cup {JSONParse(JSONStringify(d)) : d \in PaymentDatas} |->
     Validate(p)]

\* The handler from its first line to `await ensureInitialized()`: the 400
\* it answers (status 0 when it goes on to persist) and the stages it ran.
\* The outer catch logs the error object it caught, message and stack.
\* What privateDecrypt throws names an OpenSSL reason; the SyntaxError
\* of JSON.parse quotes the text it parsed where it stopped reading it;
\* the TypeError of destructuring null names the variable.
\* A catch that prints the key it tried to decrypt with.
LogCaughtShowsKey(shows) ==
  Log("[POST /api/process-payment] Decryption error:", shows \cup {"privateKey"})

LogCaught(shows) == Log("[POST /api/process-payment] Decryption error:", shows)

\* k is what getPrivateKey() did and returned, were it called.
HandlerSync(body, k) ==
  IF body.kind \in {"undefined", "number", "empty"}
  THEN [status |-> 400, message |-> MsgMissing, stages |-> {"handler"}, logs |-> {}]
  ELSE IF k.threw # ""
  THEN [status |-> 400, message |-> MsgDecrypt,
        stages |-> {"handler", "decode", "keyread"},
        logs |-> {LogCaught({})}]
  ELSE IF ~CanDecrypt(k.value, body)
  THEN [status |-> 400, message |-> MsgDecrypt,
        stages |-> {"handler", "decode", "keyread", "decrypt"},
        logs |-> {LogCaught({})}]
  ELSE IF body.pt.form # "object"
  THEN [status |-> 400, message |-> MsgDecrypt,
        stages |-> {"handler", "decode", "keyread", "decrypt", "parse"},
        logs |-> {LogCaught(IF body.pt.form = "notjson" THEN {"plaintext"} ELSE {})}]
  ELSE IF ValidateOf[JSONParse(body.pt)] # ""
  THEN [status |-> 400, message |-> ValidateOf[JSONParse(body.pt)],
        stages |-> {"handler", "decode", "keyread", "decrypt", "parse", "validate"},
        logs |-> {}]
  ELSE [status |-> 0, message |-> "",
        stages |-> {"handler", "decode", "keyread", "decrypt", "parse", "validate"},
        logs |-> {Log("[POST /api/process-payment] Payment decrypted and validated.", {})}]

Waiter(origin, header, body, transactionId, stages) ==
  [origin |-> origin, header |-> header, body |-> body, transactionId |-> transactionId,
   stages |-> stages]

\* The ids `TXN-${Date.now()}-${random}` can come out as: one that is
\* already around (in the ledger, the database file, a parked handler, an
\* earlier answer, or the legacy file while it may still be migrated), or a
\* new one; ids are opaque, so which new one makes no
\* difference and the least stands for all.
IdsOf(rows) == {rows[i].transactionId : i \in 1..Len(rows)}
KnownIds ==
  (IdsOf(db.rows) \cup IdsOf(dbFile.rows) \cup IdsOf(waiters)
     \cup {id \in TxnIds : answered[id].given}
     \cup (IF initPromise = "pending" \/ migration = "pending"
           THEN IdsOf(jsonFile.txns) ELSE {})) \cap TxnIds
DrawableIds ==
  LET new == TxnIds \ KnownIds IN
  KnownIds \cup (IF new = {} THEN {} ELSE {CHOOSE id \in new : \A other \in new : id <= other})

\* fs.writeFileSync may fail only where the environment lets the disk fail.
WriteOutcomes == IF env.diskFails THEN BOOLEAN ELSE {TRUE}

\* No promise continuation is queued: the event loop may start a new request.
MicrotasksDrained ==
  /\ proc = "up"
  /\ migration = "idle"
  /\ initPromise = "pending" \/ waiters = <<>>

\* The history of success answers: per id the answer whose row was saved,
\* or failing that the first one given.
Answer(amount, saved) == [given |-> TRUE, amount |-> amount, saved |-> saved]
NoAnswer == [given |-> FALSE, amount |-> Undefined, saved |-> FALSE]
Record(transactionId, a) ==
  IF ~answered[transactionId].given \/ a.saved
  THEN [answered EXCEPT ![transactionId] = a]
  ELSE answered

\* The lines of a request that passed validation and went on to
\* saveTransaction, which threw `threw` and logged `logs`
PersistLogs(threw, logs) ==
  {Log("[POST /api/process-payment] Payment decrypted and validated.", {})}
    \cup logs
    \cup (IF threw = "" THEN {}
          ELSE {Log("[POST /api/process-payment] Storage error (non-fatal):", {})})

\* A handler without the inner try/catch: what saveTransaction throws lands
\* in the outer catch.
PersistNoCatch(header, body, transactionId, stages, writeOk) ==
  LET r == saveTransaction(JSONParse(body.pt), transactionId, writeOk)
      ok == Resp("pay", 200, "success", "", transactionId, <<>>, stages \cup {"save"})
      failed == Resp("pay", 400, "error", MsgDecrypt, 0, <<>>, stages \cup {"save"})
  IN
  /\ db' = [db EXCEPT !.rows = r.rows]
  /\ dbFile' = r.file
  /\ lastResp' = Logged(Threw(For(IF r.threw = "" THEN ok ELSE failed, header, body),
                              r.threw),
                        PersistLogs("", r.logs) \cup (IF r.threw = "" THEN {} ELSE {LogCaught({})}))
  /\ answered' = IF r.threw = ""
                 THEN Record(transactionId, Answer(body.pt.obj.amount, TRUE))
                 ELSE answered

\* A handler that answers 500 when the id is already in the ledger.
PersistSurfacesDuplicate(header, body, transactionId, stages, writeOk) ==
  LET r == saveTransaction(JSONParse(body.pt), transactionId, writeOk)
      ok == Resp("pay", 200, "success", "", transactionId, <<>>, stages \cup {"save"})
      failed == Resp("pay", 500, "error", MsgDuplicate, 0, <<>>, stages \cup {"save"})
  IN
  /\ db' = [db EXCEPT !.rows = r.rows]
  /\ dbFile' = r.file
  /\ lastResp' = Logged(Threw(For(IF r.threw = MsgDuplicate THEN failed ELSE ok,
                                  header, body), r.threw),
                        PersistLogs(r.threw, r.logs))
  /\ answered' = IF r.threw = MsgDuplicate
                 THEN answered
                 ELSE Record(transactionId, Answer(body.pt.obj.amount, r.threw = ""))

\* A handler whose write leaves only its own record in the table.
PersistLastWins(header, body, transactionId, stages, writeOk) ==
  LET data == JSONParse(body.pt)
      ins == SqlInsert(<<>>, Row(transactionId, now, data.amount, OrNA(data.fullName),
                                 OrNA(data.cardNumber), OrNA(data.expiry), OrNA(data.cvv)))
  IN
  /\ db' = [db EXCEPT !.rows = ins.rows]
  /\ dbFile' = saveDatabase(ins.rows, writeOk)
  /\ lastResp' = Logged(Threw(For(Resp("pay", 200, "success", "", transactionId, <<>>,
                                       stages \cup {"save"}), header, body), ""),
                        PersistLogs("", {}))
  /\ answered' = Record(transactionId, Answer(data.amount, TRUE))

\* A handler whose ensureInitialized() initializes again where the first
\* attempt failed, and stores.
PersistInitializesAgain(header, body, transactionId, stages, writeOk) ==
  LET data == JSONParse(body.pt)
      ins == SqlInsert(IF db.status = "open" THEN db.rows ELSE <<>>,
                       Row(transactionId, now, data.amount, OrNA(data.fullName),
                           OrNA(data.cardNumber), OrNA(data.expiry), OrNA(data.cvv)))
  IN
  /\ db' = [status |-> "open", rows |-> ins.rows]
  /\ dbFile' = saveDatabase(ins.rows, writeOk)
  /\ lastResp' = Logged(Threw(For(Resp("pay", 200, "success", "", transactionId, <<>>,
                                       stages \cup {"save"}), header, body), ""),
                        PersistLogs("", {}))
  /\ answered' = Record(transactionId, Answer(data.amount, TRUE))

\* The handler after `await ensureInitialized()`: saveTransaction inside its
\* try/catch, then the success answer.
Persist(header, body, transactionId, stages, writeOk) ==
  LET r == saveTransaction(JSONParse(body.pt), transactionId, writeOk) IN
  /\ db' = [db EXCEPT !.rows = r.rows]
  /\ dbFile' = r.file
  /\ lastResp' = Logged(Threw(For(Resp("pay", 200, "success", "", transactionId, <<>>,
                                       stages \cup {"save"}), header, body), r.threw),
                        PersistLogs(r.threw, r.logs))
  /\ answered' = Record(transactionId, Answer(body.pt.obj.amount, r.threw = ""))

\* GET /api/transactions/:id after its await
AnswerGetById(transactionId) ==
  LET found == getTransactionById(transactionId) IN
  /\ lastResp' = IF found = <<>>
                 THEN Resp("getById", 404, "error", MsgNotFound, transactionId,
                           <<>>, {"ledger"})
                 ELSE Resp("getById", 200, "success", "", transactionId,
                           found, {"ledger"})
  /\ UNCHANGED <<db, dbFile, answered>>

\* GET /api/transactions and GET /api/admin/transactions after their await
AnswerQuery(op, f) ==
  /\ \E rows \in getAllTransactions(f) :
       lastResp' = [Resp(op, 200, "success", "", 0, rows, {"ledger"}) EXCEPT !.filters = f]
  /\ UNCHANGED <<db, dbFile, answered>>

\* GET /api/admin/stats after its await
AnswerStats ==
  /\ lastResp' = [Resp("stats", 200, "success", "", 0, <<>>, {"ledger"})
                    EXCEPT !.stats = getTransactionStats]
  /\ UNCHANGED <<db, dbFile, answered>>

\* A read handler at `await ensureInitialized()`: it goes on once
\* initPromise is settled. A read that came earlier changes nothing while
\* it waits, so it is taken up when it can go on.
AwaitThen(answer) ==
  /\ initPromise = "resolved"
  /\ answer
  /\ UNCHANGED waiters

\* The queries of a run that is about the filters: none, each bound alone,
\* both dates, both amounts, all four; limit and offset each alone,
\* together, and as 0; and all six.
QueryFilters ==
  { NoFilters,
    Filters(1, None, None, None, None, None),
    Filters(None, 0, None, None, None, None),
    Filters(None, None, 8, None, None, None),
    Filters(None, None, None, 50, None, None),
    Filters(0, 0, None, None, None, None),
    Filters(None, None, 7, 50, None, None),
    Filters(0, 1, 7, 99, None, None),
    Filters(None, None, None, None, 1, None),
    Filters(None, None, None, None, None, 1),
    Filters(None, None, None, None, 1, 1),
    Filters(None, None, None, None, 0, None),
    Filters(None, None, None, None, 1, 0),
    Filters(0, 1, 7, 99, 1, 1) }

\* The queries of a run: all rows, and where the run is about more than
\* the ledger's content also the latest row of at least 8.
FiltersOf(workload) ==
  IF workload \in {"core", "few", "admin", "origins", "stats", "fields", "session", "login"}
  THEN {NoFilters}
  ELSE IF workload = "queries" THEN QueryFilters
  ELSE {NoFilters, Filters(None, None, 8, None, 1, None)}

\* The admin credentials of a request, <<header, query parameter>>
AdminKeysOf(workload) ==
  IF workload \in {"core", "few", "origins", "queries", "stats", "fields", "session", "login"}
  THEN {<<Undefined, Undefined>>}
  ELSE IF workload = "admin"
  THEN {<<Undefined, Undefined>>, <<Str(""), Undefined>>, <<Undefined, Str("")>>,
        <<AdminKey, Undefined>>, <<Undefined, AdminKey>>, <<Str(""), AdminKey>>,
        <<OtherKey, Undefined>>, <<Undefined, OtherKey>>,
        <<OtherKey, AdminKey>>, <<AdminKey, OtherKey>>}
  ELSE {<<Undefined, Undefined>>, <<AdminKey, Undefined>>}

\* The Origin header of a request: none (a client that is not a browser),
\* the shop's frontend, or another site.
ShopOrigin == Str("https://shop.example")
OtherOrigin == Str("https://other.example")
OriginsOf(workload) ==
  IF workload = "origins" THEN {Undefined, ShopOrigin, OtherOrigin} ELSE {Undefined}

(***************************************************************************)
(* Actions                                                                 *)
(***************************************************************************)
AdminRejection(op, verdict) ==
  IF verdict = "401"
  THEN Resp(op, 401, "error", MsgAdminMissing, 0, <<>>, {"admin"})
  ELSE Resp(op, 403, "error", MsgAdminInvalid, 0, <<>>, {"admin"})

\* A route whose limiter stands before the session guard: a request the
\* guard refuses has been counted.
ProcessPaymentLimiterFirst(c, origin, header, body, keyWrites) ==
  /\ MicrotasksDrained
  /\ sessionGuard(header) # "next"
  /\ hits[c] < cfg.rateMax + MaxOver
  /\ hits' = [hits EXCEPT ![c] = @ + 1]
  /\ lastResp' = For(Resp("pay", 401, "error", MsgSession, 0, <<>>, {"ratelimit", "session"}),
                     header, NoBody)
  /\ seen' = Saw(origin, Unread, Unread)
  /\ UNCHANGED <<cfg, admin, env, starts, clientKey, fetch, keys, keyFiles, generated, proc, db, dbFile,
                 jsonFile, initPromise, migration, waiters, now, admitted, window, answered>>

\* POST /api/process-payment: sessionGuard, paymentRateLimiter, handler.
ProcessPayment(c, origin, header, body, keyWrites) ==
  /\ MicrotasksDrained
  /\ corsMiddleware(origin).verdict = "next"
  /\ IF sessionGuard(header) # "next"
     THEN /\ lastResp' = For(Resp("pay", 401, "error", MsgSession, 0, <<>>, {"session"}),
                              header, NoBody)
          /\ UNCHANGED <<hits, admitted, window, db, dbFile, waiters, answered>>
     ELSE /\ hits[c] < cfg.rateMax + MaxOver
          /\ hits' = [hits EXCEPT ![c] = @ + 1]
          /\ IF paymentRateLimiter(hits[c] + 1) # "next"
             THEN /\ lastResp' = For(Resp("pay", 429, "error", MsgRate, 0, <<>>,
                                          {"session", "ratelimit"}), header, NoBody)
                  /\ window' = [window EXCEPT ![c] = "limited"]
                  /\ UNCHANGED <<admitted, db, dbFile, waiters, answered>>
             ELSE /\ admitted' = [admitted EXCEPT ![c] = @ + 1]
                  /\ window' = [window EXCEPT
                                  ![c] = IF @ = "reopened" THEN "readmitted" ELSE @]
                  /\ LET h == HandlerSync(body, getPrivateKey(keyWrites))
                         stages == {"session", "ratelimit"} \cup h.stages
                     IN IF h.status # 0
                        THEN /\ lastResp' = Logged(For(Resp("pay", h.status, "error",
                                                            h.message, 0, <<>>, stages),
                                                       header, body), h.logs)
                             /\ UNCHANGED <<db, dbFile, waiters, answered>>
                        ELSE /\ IF initPromise = "resolved"
                                THEN /\ \E transactionId \in DrawableIds, writeOk \in WriteOutcomes :
                                          /\ Len(db.rows) < MaxLedger \/ HasId(db.rows, transactionId)
                                          /\ Persist(header, body, transactionId, stages, writeOk)
                                     /\ UNCHANGED waiters
                                ELSE /\ Len(db.rows) + Len(waiters) < MaxLedger
                                     /\ Len(waiters) < MaxInflight
                                     /\ \E transactionId \in DrawableIds :
                                          waiters' = Append(waiters,
                                            Waiter(origin, HeaderRead(header), body,
                                                   transactionId, stages))
                                     /\ lastResp' = NoResp
                                     /\ UNCHANGED <<db, dbFile, answered>>
  /\ seen' = IF lastResp' = NoResp THEN NothingSeen ELSE Saw(origin, Unread, Unread)
  /\ IF "keyread" \in lastResp'.stages \/ waiters' # waiters
     THEN KeysBecome(getPrivateKey(keyWrites))
     ELSE UNCHANGED <<keys, keyFiles, generated>>
  /\ UNCHANGED <<cfg, admin, env, starts, clientKey, fetch, jsonFile, initPromise, migration, now, proc>>

\* GET /api/transactions/:id
GetTransaction(origin, transactionId) ==
  /\ MicrotasksDrained
  /\ corsMiddleware(origin).verdict = "next"
  /\ seen' = Saw(origin, Unread, Unread)
  /\ AwaitThen(AnswerGetById(transactionId))
  /\ UNCHANGED <<cfg, admin, env, starts, clientKey, fetch, keys, keyFiles, generated, proc, jsonFile,
                 initPromise, migration, hits, now, admitted, window>>

\* GET /api/transactions
GetTransactions(origin, f) ==
  /\ MicrotasksDrained
  /\ corsMiddleware(origin).verdict = "next"
  /\ seen' = Saw(origin, Unread, Unread)
  /\ AwaitThen(AnswerQuery("query", f))
  /\ UNCHANGED <<cfg, admin, env, starts, clientKey, fetch, keys, keyFiles, generated, proc, jsonFile,
                 initPromise, migration, hits, now, admitted, window>>

\* GET /api/admin/transactions: adminAuth, then the same query
AdminTransactions(origin, headerKey, queryKey, f) ==
  /\ MicrotasksDrained
  /\ corsMiddleware(origin).verdict = "next"
  /\ seen' = Saw(origin, headerKey, queryKey)
  /\ IF adminAuth(headerKey, queryKey) # "next"
     THEN /\ lastResp' = AdminRejection("adminQuery", adminAuth(headerKey, queryKey))
          /\ UNCHANGED <<db, dbFile, waiters, answered>>
     ELSE AwaitThen(AnswerQuery("adminQuery", f))
  /\ UNCHANGED <<cfg, admin, env, starts, clientKey, fetch, keys, keyFiles, generated, proc, jsonFile,
                 initPromise, migration, hits, now, admitted, window>>

\* GET /api/admin/stats: adminAuth, then the statistics
AdminStats(origin, headerKey, queryKey) ==
  /\ MicrotasksDrained
  /\ corsMiddleware(origin).verdict = "next"
  /\ seen' = Saw(origin, headerKey, queryKey)
  /\ IF adminAuth(headerKey, queryKey) # "next"
     THEN /\ lastResp' = AdminRejection("stats", adminAuth(headerKey, queryKey))
          /\ UNCHANGED <<db, dbFile, waiters, answered>>
     ELSE AwaitThen(AnswerStats)
  /\ UNCHANGED <<cfg, admin, env, starts, clientKey, fetch, keys, keyFiles, generated, proc, jsonFile,
                 initPromise, migration, hits, now, admitted, window>>

\* A payment handler parked at `await ensureInitialized()` goes on, oldest first,
\* once initPromise is settled and the migration's continuation has run.
\* A parked handler that goes on as soon as initPromise is settled, before
\* migrateFromJSON has gone on from its await.
ResumeWaiterBeforeMigration(writeOk) ==
  /\ proc = "up"
  /\ initPromise = "resolved"
  /\ waiters # <<>>
  /\ LET w == Head(waiters) IN
     Persist(w.header, w.body, w.transactionId, w.stages, writeOk)
  /\ waiters' = Tail(waiters)
  /\ seen' = Saw(Head(waiters).origin, Unread, Unread)
  /\ UNCHANGED <<cfg, admin, env, starts, clientKey, fetch, keys, keyFiles, generated, proc, jsonFile,
                 initPromise, migration, hits, now, admitted, window>>

ResumeWaiter(writeOk) ==
  /\ proc = "up"
  /\ initPromise = "resolved"
  /\ migration = "idle"
  /\ waiters # <<>>
  /\ LET w == Head(waiters) IN
     Persist(w.header, w.body, w.transactionId, w.stages, writeOk)
  /\ waiters' = Tail(waiters)
  /\ seen' = Saw(Head(waiters).origin, Unread, Unread)
  /\ UNCHANGED <<cfg, admin, env, starts, clientKey, fetch, keys, keyFiles, generated, proc, jsonFile,
                 initPromise, migration, hits, now, admitted, window>>

\* GET /api/crypto/key: sessionGuard, then the public key

GetCryptoKey(origin, header, keyWrites) ==
  /\ MicrotasksDrained
  /\ corsMiddleware(origin).verdict = "next"
  /\ seen' = Saw(origin, Unread, Unread)
  /\ IF sessionGuard(header) # "next"
     THEN /\ lastResp' = For(Resp("key", 401, "error", MsgSession, 0, <<>>, {"session"}),
                              header, NoBody)
          /\ UNCHANGED <<keys, keyFiles, generated>>
     ELSE LET k == getPublicKey(keyWrites) IN
          /\ KeysBecome(k)
          /\ lastResp' =
               IF k.threw # ""
               THEN Logged(For(Resp("key", 500, "error", MsgKey, 0, <<>>,
                                    {"session", "handler", "keyread"}), header, NoBody),
                           k.logs
                             \cup {Log("[GET /api/crypto/key] Failed to read public key:",
                                        {})})
               ELSE Logged([For(Resp("key", 200, "", "", 0, <<>>,
                                     {"session", "handler", "keyread"}), header, NoBody)
                              EXCEPT !.publicKey = k.value],
                           k.logs)
  /\ UNCHANGED <<cfg, admin, env, starts, clientKey, fetch, db, dbFile, jsonFile, initPromise, migration, waiters,
                 hits, now, admitted, window, answered, proc>>

\* A GET /api/admin/stats that came while initPromise was pending goes on
\* past its `await ensureInitialized()`, ahead of the payment handlers that
\* parked after it.
ResumeStats(headerKey, queryKey) ==
  /\ proc = "up"
  /\ initPromise = "resolved"
  /\ migration = "idle"
  /\ waiters # <<>>
  /\ adminAuth(headerKey, queryKey) = "next"
  /\ seen' = Saw(Undefined, headerKey, queryKey)
  /\ AnswerStats
  /\ UNCHANGED <<cfg, admin, env, starts, clientKey, fetch, keys, keyFiles, generated, proc, jsonFile,
                 initPromise, migration, waiters, hits, now, admitted, window>>

\* ensureInitialized at module load: initializeDatabase settles, then the
\* .then callback runs (and calls migrateFromJSON up to its await), or the
\* .catch logs. initOk is whether initSqlJs and mkdirSync succeeded.
InitializeDatabase(initOk, writeOk) ==
  /\ proc = "up"
  /\ initPromise = "pending"
  /\ initPromise' = "resolved"
  /\ IF ~initOk
     THEN UNCHANGED <<db, dbFile, migration>>
     ELSE IF dbFile.exists /\ dbFile.corrupt
     THEN /\ db' = [status |-> "corrupt", rows |-> <<>>]
          /\ UNCHANGED <<dbFile, migration>>
     ELSE LET rows == IF dbFile.exists THEN dbFile.rows ELSE <<>> IN
          /\ db' = [status |-> "open", rows |-> rows]
          /\ dbFile' = saveDatabase(rows, writeOk)
          /\ migration' = IF Len(rows) = 0 /\ jsonFile.exists THEN "pending" ELSE "idle"
  /\ lastResp' = NoResp
  /\ seen' = NothingSeen
  /\ UNCHANGED <<cfg, admin, env, starts, clientKey, fetch, keys, keyFiles, generated, proc, jsonFile, waiters,
                 hits, now, admitted, window, answered>>

\* migrateFromJSON after `await initializeDatabase()`
MigrateFromJSON(writeOk) ==
  /\ proc = "up"
  /\ migration = "pending"
  /\ migration' = "idle"
  /\ IF ~jsonFile.valid \/ jsonFile.txns = <<>> \/ Len(db.rows) > 0
     THEN UNCHANGED <<db, dbFile>>
     ELSE LET rows == MigrateRows(db.rows, jsonFile.txns) IN
          /\ db' = [db EXCEPT !.rows = rows]
          /\ dbFile' = saveDatabase(rows, writeOk)
  /\ lastResp' = NoResp
  /\ seen' = NothingSeen
  /\ UNCHANGED <<cfg, admin, env, starts, clientKey, fetch, keys, keyFiles, generated, proc, jsonFile,
                 initPromise, waiters, hits, now, admitted, window, answered>>

\* A window that runs out without freeing a slot.
WindowElapseLeavesFull(cs) ==
  /\ MicrotasksDrained
  /\ cs # {}
  /\ \E c \in cs : hits[c] > 0
  /\ hits' = [c \in env.clients |-> IF c \in cs THEN cfg.rateMax ELSE hits[c]]
  /\ admitted' = [c \in env.clients |-> IF c \in cs THEN 0 ELSE admitted[c]]
  /\ window' = [c \in env.clients |->
                  IF c \notin cs THEN window[c]
                  ELSE IF window[c] = "limited" THEN "reopened" ELSE "open"]
  /\ lastResp' = NoResp
  /\ seen' = NothingSeen
  /\ UNCHANGED <<cfg, admin, env, starts, clientKey, fetch, keys, keyFiles, generated, proc, db, dbFile, jsonFile,
                 initPromise, migration, waiters,
                 now, answered>>

\* The rate-limit window of some clients runs out: their counts start over.
WindowElapse(cs) ==
  /\ MicrotasksDrained
  /\ cs # {}
  /\ \E c \in cs : hits[c] > 0
  /\ hits' = [c \in env.clients |-> IF c \in cs THEN 0 ELSE hits[c]]
  /\ admitted' = [c \in env.clients |-> IF c \in cs THEN 0 ELSE admitted[c]]
  /\ window' = [c \in env.clients |->
                  IF c \notin cs THEN window[c]
                  ELSE IF window[c] = "limited" THEN "reopened" ELSE "open"]
  /\ lastResp' = NoResp
  /\ seen' = NothingSeen
  /\ UNCHANGED <<cfg, admin, env, starts, clientKey, fetch, keys, keyFiles, generated, proc, db, dbFile, jsonFile,
                 initPromise, migration, waiters,
                 now, answered>>

\* Time passes.
Tick ==
  /\ now < MaxClock
  /\ now' = now + 1
  /\ lastResp' = NoResp
  /\ seen' = NothingSeen
  /\ UNCHANGED <<cfg, admin, env, starts, clientKey, fetch, keys, keyFiles, generated, proc, db, dbFile, jsonFile,
                 initPromise, migration, waiters,
                 hits, admitted, window, answered>>

(***************************************************************************)
(* Start of the process                                                    *)
(***************************************************************************)
Legacy(transactionId, amount, cardNumber) ==
  [transactionId |-> transactionId, timestamp |-> 0, amount |-> amount,
   cardholderName |-> NameJane, cardNumber |-> cardNumber, expiry |-> ExpiryOk,
   cvv |-> Undefined]

NoJsonFile == [exists |-> FALSE, valid |-> FALSE, txns |-> <<>>]
BadJsonFile == [exists |-> TRUE, valid |-> FALSE, txns |-> <<>>]
\* two entries with one id, and an entry without amount
LegacyJsonFile ==
  [exists |-> TRUE, valid |-> TRUE,
   txns |-> <<Legacy(1, Num(7), CardOk), Legacy(1, Num(8), Undefined),
              Legacy(2, Undefined, CardOk)>>]

NoDbFile == [exists |-> FALSE, corrupt |-> FALSE, rows |-> <<>>]
CorruptDbFile == [exists |-> TRUE, corrupt |-> TRUE, rows |-> <<>>]
OldDbFile ==
  [exists |-> TRUE, corrupt |-> FALSE,
   rows |-> <<Row(1, 0, Num(7), NameJane, CardOk, ExpiryOk, CvvOk)>>]

\* The key files a machine may hold: the pair of an earlier run
StoredKeys(k) == KeyFiles(KeyPair(k).privateKey, KeyPair(k).publicKey, "0600")

\* lib/payment.ts, the cache of the handshake's key in sessionStorage
KEY_CACHE_TTL_MS == 10 * 60 * 1000
KEY_FETCH_RETRIES == 2

\* How often the browser's clock moves on
MaxClientTicks == 3

\* The addresses the client is built with for the one backend
BackendUrls == {"http://localhost:4000", "http://127.0.0.1:4000"}

\* The messages of the errors fetchPublicKey can raise
MsgTimedOut == "Secure connection timed out after 10s. Check your network and try again."
MsgFailedToFetch == "Failed to fetch"
MsgServerError == "Backend server error. The server may be down or unreachable."
MsgAccessDenied == "Access denied. Check CORS and authentication settings."
MsgFetchFailed == "Failed to fetch public key"
MsgKeyNotFound == "Invalid response: public key not found in response"
MsgInvalidKey == "Invalid public key"

\* The browser before the first call: nothing in sessionStorage
NoFetch ==
  [clock |-> 0, ticks |-> 0, url |-> "", expires |-> 0, phase |-> "idle",
   backendUrl |-> "", attempt |-> 0, requests |-> 0, lastError |-> "", result |-> Null]

\* A reading of the cache that takes an entry of the same address whatever
\* its age.
getCachedPublicKeyOfAnyAge(backendUrl) ==
  IF clientKey = Null THEN Null
  ELSE IF fetch.url # backendUrl THEN Null
  ELSE clientKey

\* getCachedPublicKey: the key of the entry, null without an entry, with one
\* of another address and with one whose expiry Date.now() is past
getCachedPublicKey(backendUrl) ==
  IF clientKey = Null THEN Null
  ELSE IF fetch.url # backendUrl \/ fetch.clock > fetch.expires THEN Null
  ELSE clientKey

\* setCachedPublicKey: the entry after the call; a setItem that throws is
\* ignored and leaves the entry as it was
setCachedPublicKey(backendUrl, key, storageOk) ==
  IF storageOk
  THEN [key |-> key, url |-> backendUrl, expires |-> fetch.clock + KEY_CACHE_TTL_MS]
  ELSE [key |-> clientKey, url |-> fetch.url, expires |-> fetch.expires]

\* fetchPublicKeyOneAttempt on a response: the key, or the error it throws
fetchPublicKeyOneAttempt(resp) ==
  IF resp.status # 200
  THEN [threw |-> IF resp.status >= 500 THEN MsgServerError
                  ELSE IF resp.status \in {401, 403} THEN MsgAccessDenied
                  ELSE MsgFetchFailed,
        key |-> Null]
  ELSE IF resp.publicKey[1] \in {"NONE", "NULL", "UNSET", "EMPTY"}
  THEN [threw |-> MsgKeyNotFound, key |-> Null]
  ELSE IF resp.publicKey[1] # "PUBLIC"
  THEN [threw |-> MsgInvalidKey, key |-> Null]
  ELSE [threw |-> "", key |-> resp.publicKey]

\* lib/admin.ts: the admin_api_key item of localStorage; getItem gives null
\* for an item that is not there
getAdminApiKey == admin.key
setAdminApiKey(apiKey) == apiKey
clearAdminApiKey == JsNull
isAdminAuthenticated == getAdminApiKey # JsNull

\* The login page as it is opened in a browser that holds no key
NoLogin == [key |-> JsNull, phase |-> "idle", error |-> ""]

MsgAuthRequired == "Admin authentication required"
MsgAuthFailed == "Authentication failed. Please log in again."
MsgStatsFailed == "Failed to fetch stats"

\* fetchAdminStats on the response to its request: what it leaves in the
\* item and the error it throws, none for a response that is ok
fetchAdminStats(key, resp) ==
  IF resp.status = 200 THEN [key |-> key, threw |-> ""]
  ELSE IF resp.status \in {401, 403} THEN [key |-> clearAdminApiKey, threw |-> MsgAuthFailed]
  ELSE [key |-> key, threw |-> MsgStatsFailed]

Startup(file, json, diskFails, workload, clients) ==
  [dbFile |-> file, jsonFile |-> json, diskFails |-> diskFails, workload |-> workload,
   clients |-> clients, keyFiles |-> StoredKeys("K1"), keyDiskFails |-> FALSE]

\* The start-up with other key files, in a directory that may refuse writes
WithKeyFiles(s, files, keyDiskFails) ==
  [s EXCEPT !.keyFiles = files, !.keyDiskFails = keyDiskFails]

\* What the process may find on the machine when it starts.
Startups ==
  { Startup(NoDbFile, NoJsonFile, FALSE, "core", {"c1"}),
    Startup(NoDbFile, LegacyJsonFile, FALSE, "core", {"c1"}),
    Startup(OldDbFile, LegacyJsonFile, FALSE, "core", {"c1"}),
    Startup(CorruptDbFile, NoJsonFile, FALSE, "core", {"c1"}) }

InitWith(configs, startups) ==
  /\ cfg \in configs
  /\ \E s \in startups :
       /\ env = [diskFails |-> s.diskFails, workload |-> s.workload, clients |-> s.clients,
                 keyDiskFails |-> s.keyDiskFails]
       /\ \E writes \in KeyWriteOutcomes :
            LET r == ensureKeyPair(NullCache, s.keyFiles, 0, writes) IN
            /\ keys = r.keys
            /\ keyFiles = r.files
            /\ generated = r.generated
            /\ proc = IF r.threw = "" THEN "up" ELSE "down"
       /\ hits = [c \in s.clients |-> 0]
       /\ admitted = [c \in s.clients |-> 0]
       /\ window = [c \in s.clients |-> "open"]
       /\ dbFile = s.dbFile
       /\ jsonFile = s.jsonFile
  /\ db = [status |-> "null", rows |-> <<>>]
  /\ initPromise = "pending"
  /\ migration = "idle"
  /\ waiters = <<>>
  /\ now = 0
  /\ lastResp = NoResp
  /\ answered = [id \in TxnIds |-> NoAnswer]
  /\ seen = NothingSeen
  /\ starts = 1
  /\ clientKey = Null
  /\ fetch = NoFetch
  /\ admin = NoLogin

\* RATE_LIMIT_MAX set low, REQUIRE_SESSION_HEADER either way, a disk that
\* takes every write
Init ==
  InitWith([requireSession : BOOLEAN, rateMax : {LowRateLimitMax}, adminApiKey : {Undefined},
            frontendOrigin : {Undefined},
            privateKey : {Unset}, publicKey : {Unset}], Startups)

\* RATE_LIMIT_MAX left at its default
InitDefaultLimit ==
  InitWith([requireSession : {FALSE}, rateMax : {DefaultRateLimitMax}, adminApiKey : {Undefined},
            frontendOrigin : {Undefined},
            privateKey : {Unset}, publicKey : {Unset}],
           {Startup(NoDbFile, BadJsonFile, FALSE, "few", Clients)})

\* A disk on which any write may fail, under a legacy ledger to migrate
InitDiskFails ==
  InitWith([requireSession : {FALSE}, rateMax : {LowRateLimitMax}, adminApiKey : {Undefined},
            frontendOrigin : {Undefined},
            privateKey : {Unset}, publicKey : {Unset}],
           {Startup(NoDbFile, LegacyJsonFile, TRUE, "core", {"c1"})})

\* ADMIN_API_KEY set or not, requests with every combination of admin
\* credentials
InitAdmin ==
  InitWith([requireSession : {FALSE}, rateMax : {LowRateLimitMax},
            adminApiKey : {Undefined, AdminKey}, frontendOrigin : {Undefined},
            privateKey : {Unset}, publicKey : {Unset}],
           {Startup(NoDbFile, BadJsonFile, FALSE, "admin", {"c1"})})

\* FRONTEND_ORIGIN set or not, requests from the frontend, from another
\* site and from clients that name no origin
InitOrigins ==
  InitWith([requireSession : {FALSE}, rateMax : {LowRateLimitMax},
            adminApiKey : {Undefined}, frontendOrigin : {Undefined, ShopOrigin},
            privateKey : {Unset}, publicKey : {Unset}],
           {Startup(NoDbFile, BadJsonFile, FALSE, "origins", {"c1"})})

\* A migrated ledger, queried with and without each of the filters
InitQueries ==
  InitWith([requireSession : {FALSE}, rateMax : {LowRateLimitMax}, adminApiKey : {Undefined},
            frontendOrigin : {Undefined},
            privateKey : {Unset}, publicKey : {Unset}],
           {Startup(NoDbFile, LegacyJsonFile, FALSE, "queries", {"c1"})})

\* A legacy ledger to migrate, and statistics asked for while payments
\* come in
InitStats ==
  InitWith([requireSession : {FALSE}, rateMax : {LowRateLimitMax}, adminApiKey : {Undefined},
            frontendOrigin : {Undefined},
            privateKey : {Unset}, publicKey : {Unset}],
           {Startup(NoDbFile, LegacyJsonFile, FALSE, "stats", Clients)})

\* Card numbers and expiry dates put to the checks of the payment handler
InitFields ==
  InitWith([requireSession : {FALSE}, rateMax : {LowRateLimitMax}, adminApiKey : {Undefined},
            frontendOrigin : {Undefined},
            privateKey : {Unset}, publicKey : {Unset}],
           {Startup(NoDbFile, BadJsonFile, FALSE, "fields", {"c1"})})

\* REQUIRE_SESSION_HEADER on, and requests without the header, with an
\* empty one and with two different values in it
InitSession ==
  InitWith([requireSession : {TRUE}, rateMax : {LowRateLimitMax}, adminApiKey : {Undefined},
            frontendOrigin : {Undefined},
            privateKey : {Unset}, publicKey : {Unset}],
           {Startup(NoDbFile, BadJsonFile, FALSE, "session", {"c1"})})

\* Every sample body, on a machine whose legacy file cannot be read
InitAllBodies ==
  InitWith([requireSession : {FALSE}, rateMax : {LowRateLimitMax}, adminApiKey : {Undefined},
            frontendOrigin : {Undefined},
            privateKey : {Unset}, publicKey : {Unset}],
           {Startup(NoDbFile, BadJsonFile, FALSE, "all", {"c1"})})

\* The key material a machine may be configured with: nothing, a pair as
\* PEM text, the same base64-encoded, text that is neither, text without
\* a base64 character in it, and one secret of the two only
KeySecrets ==
  { <<Unset, Unset>>,
    <<KeyPair("K1").privateKey, KeyPair("K1").publicKey>>,
    <<Base64Of(KeyPair("K1").privateKey), Base64Of(KeyPair("K1").publicKey)>>,
    <<Text("not-a-key"), Text("not-a-pub")>>,
    <<Text("!"), Text("!")>>,
    <<KeyPair("K1").privateKey, Unset>> }

\* The key files it may hold: none, a pair, a private key file readable by
\* everyone without its public one, and two empty files; the directory
\* refuses writes only where a start has something to write.
KeyFileSets ==
  { KeyFiles(Missing, Missing, ""),
    StoredKeys("K2"),
    KeyFiles(KeyPair("K2").privateKey, Missing, "0644"),
    KeyFiles(EmptyText, EmptyText, "0600") }

KeyConfig(secrets) ==
  [requireSession |-> FALSE, rateMax |-> LowRateLimitMax, adminApiKey |-> Undefined,
   frontendOrigin |-> Undefined, privateKey |-> secrets[1], publicKey |-> secrets[2]]

InitKeys ==
  \/ InitWith({KeyConfig(k) : k \in KeySecrets},
              {WithKeyFiles(Startup(NoDbFile, NoJsonFile, FALSE, "keys", {"c1"}),
                            files, FALSE) : files \in KeyFileSets})
  \/ InitWith({KeyConfig(<<Unset, Unset>>)},
              {WithKeyFiles(Startup(NoDbFile, NoJsonFile, FALSE, "keys", {"c1"}),
                            files, TRUE) :
                 files \in {f \in KeyFileSets : f.publicKey = Missing}})

\* The machines of a checkout: keys from the environment or none, no key
\* file or a stored pair, and a key directory that refuses writes
InitRoundTrip ==
  \/ InitWith({KeyConfig(k) : k \in {<<Unset, Unset>>,
                                     <<KeyPair("K1").privateKey, KeyPair("K1").publicKey>>}},
              {WithKeyFiles(Startup(NoDbFile, NoJsonFile, FALSE, "keys", {"c1"}),
                            files, FALSE) :
                 files \in {KeyFiles(Missing, Missing, ""), StoredKeys("K2")}})
  \/ InitWith({KeyConfig(<<Unset, Unset>>)},
              {WithKeyFiles(Startup(NoDbFile, NoJsonFile, FALSE, "keys", {"c1"}),
                            KeyFiles(Missing, Missing, ""), TRUE)})

\* No key secrets, one key file of the two left by an earlier run, and a
\* key directory that may refuse a write
InitOneKeyFile ==
  InitWith({KeyConfig(<<Unset, Unset>>)},
           {WithKeyFiles(Startup(NoDbFile, NoJsonFile, FALSE, "keys", {"c1"}), files, TRUE) :
              files \in {KeyFiles(KeyPair("K2").privateKey, Missing, "0644"),
                         KeyFiles(Missing, KeyPair("K2").publicKey, "")}})

\* The process ends and is started again on the same machine with the same
\* environment: the module state starts over, the files stay.
Restart(keyWrites) ==
  LET r == ensureKeyPair(NullCache, keyFiles, generated, keyWrites) IN
  /\ starts < MaxStarts
  /\ r.generated <= MaxGenerated
  /\ keys' = IF r.threw = "" THEN r.keys ELSE NullCache
  /\ keyFiles' = r.files
  /\ generated' = r.generated
  /\ proc' = IF r.threw = "" THEN "up" ELSE "down"
  /\ db' = [status |-> "null", rows |-> <<>>]
  /\ initPromise' = "pending"
  /\ migration' = "idle"
  /\ waiters' = <<>>
  /\ hits' = [c \in env.clients |-> 0]
  /\ admitted' = [c \in env.clients |-> 0]
  /\ window' = [c \in env.clients |-> "open"]
  /\ lastResp' = NoResp
  /\ seen' = NothingSeen
  /\ starts' = starts + 1
  /\ UNCHANGED <<cfg, admin, env, dbFile, jsonFile, now, answered, clientKey, fetch>>

\* fetchPublicKey of the client after its GET /api/crypto/key is answered:
\* with nothing in the cache, a key that passes the checks is put into
\* sessionStorage and handed to the checkout page.
FetchPublicKeyReturns ==
  /\ clientKey = Null
  /\ KeyAccepted(lastResp)
  /\ clientKey' = lastResp.publicKey
  /\ fetch' = [fetch EXCEPT !.url = setCachedPublicKey("http://localhost:4000",
                                                      lastResp.publicKey, TRUE).url,
                            !.expires = setCachedPublicKey("http://localhost:4000",
                                                          lastResp.publicKey, TRUE).expires]
  /\ lastResp' = NoResp
  /\ seen' = NothingSeen
  /\ UNCHANGED <<cfg, admin, env, starts, keys, keyFiles, generated, proc, db, dbFile, jsonFile,
                 initPromise, migration, waiters, hits, now, admitted, window, answered>>

\* fetchPublicKey is called: with an entry in the cache that it can use it
\* returns the key; without one it enters its loop.
CallFetchPublicKey(backendUrl) ==
  LET cached == getCachedPublicKey(backendUrl) IN
  /\ fetch.phase \in {"idle", "returned", "threw"}
  /\ fetch' = IF cached # Null
              THEN [fetch EXCEPT !.phase = "returned", !.backendUrl = backendUrl,
                                 !.attempt = 0, !.requests = 0, !.lastError = "",
                                 !.result = cached]
              ELSE [fetch EXCEPT !.phase = "attempting", !.backendUrl = backendUrl,
                                 !.attempt = 0, !.requests = 0, !.lastError = "",
                                 !.result = Null]
  /\ lastResp' = NoResp
  /\ seen' = NothingSeen
  /\ UNCHANGED <<cfg, admin, env, starts, keys, keyFiles, generated, proc, db, dbFile, jsonFile,
                 initPromise, migration, waiters, hits, now, admitted, window, answered,
                 clientKey>>

\* One turn of the loop as far as its await: the GET /api/crypto/key is sent
BeginAttempt ==
  /\ fetch.phase = "attempting"
  /\ fetch' = [fetch EXCEPT !.phase = "inflight", !.requests = @ + 1]
  /\ lastResp' = NoResp
  /\ seen' = NothingSeen
  /\ UNCHANGED <<cfg, admin, env, starts, keys, keyFiles, generated, proc, db, dbFile, jsonFile,
                 initPromise, migration, waiters, hits, now, admitted, window, answered,
                 clientKey>>

\* The server takes the request that is under way
AnswerAttempt(keyWrites) ==
  /\ fetch.phase = "inflight"
  /\ lastResp = NoResp
  /\ GetCryptoKey(Undefined, SessionHeaderValue, keyWrites)

\* The rest of the turn: the request gave a response, failed in the network
\* or was aborted by the timer. A key that passes the checks is cached and
\* returned; an error is kept as lastError, the timer's in place of the one
\* caught when the signal is aborted, and is thrown after the last turn.
SettleAttempt(net, storageOk) ==
  LET r == IF net = "response" THEN fetchPublicKeyOneAttempt(lastResp)
           ELSE [threw |-> IF net = "abort" THEN "AbortError" ELSE MsgFailedToFetch,
                 key |-> Null]
      lastError == IF net = "abort" THEN MsgTimedOut ELSE r.threw
      entry == setCachedPublicKey(fetch.backendUrl, r.key, storageOk)
  IN
  /\ fetch.phase = "inflight"
  /\ net = "response" => lastResp.op = "key"
  /\ r.threw # "" => storageOk
  /\ IF r.threw = ""
     THEN /\ clientKey' = entry.key
          /\ fetch' = [fetch EXCEPT !.phase = "returned", !.result = r.key,
                                    !.url = entry.url, !.expires = entry.expires]
     ELSE /\ clientKey' = clientKey
          /\ fetch' = IF fetch.attempt < KEY_FETCH_RETRIES
                      THEN [fetch EXCEPT !.phase = "attempting", !.attempt = @ + 1,
                                         !.lastError = lastError]
                      ELSE [fetch EXCEPT !.phase = "threw", !.lastError = lastError,
                                         !.result = Text(lastError)]
  /\ lastResp' = NoResp
  /\ seen' = NothingSeen
  /\ UNCHANGED <<cfg, admin, env, starts, keys, keyFiles, generated, proc, db, dbFile, jsonFile,
                 initPromise, migration, waiters, hits, now, admitted, window, answered>>

\* The browser's clock moves on, by a millisecond or by the cache's lifetime
ClientTick(ms) ==
  /\ fetch.ticks < MaxClientTicks
  /\ fetch' = [fetch EXCEPT !.clock = @ + ms, !.ticks = @ + 1]
  /\ UNCHANGED <<cfg, admin, env, starts, keys, keyFiles, generated, proc, db, dbFile, jsonFile,
                 initPromise, migration, waiters, hits, now, admitted, window, answered,
                 lastResp, seen, clientKey>>

\* The machines a browser fetches the key from: one that hands out a key,
\* one whose public key secret is no key, and one that may fail to write
\* the pair it generates
InitFetch ==
  \/ InitWith({KeyConfig(k) : k \in {<<Unset, Unset>>, <<Text("not-a-key"), Text("not-a-pub")>>}},
              {WithKeyFiles(Startup(NoDbFile, NoJsonFile, FALSE, "keys", {"c1"}),
                            StoredKeys("K2"), FALSE)})
  \/ InitWith({KeyConfig(<<Unset, Unset>>)},
              {WithKeyFiles(Startup(NoDbFile, NoJsonFile, FALSE, "keys", {"c1"}),
                            KeyFiles(Missing, Missing, ""), TRUE)})

\* The calls of fetchPublicKey of one browser session
NextFetch ==
  \/ \E backendUrl \in BackendUrls : CallFetchPublicKey(backendUrl)
  \/ BeginAttempt
  \/ \E keyWrites \in KeyWriteOutcomes : AnswerAttempt(keyWrites)
  \/ \E net \in {"response", "failed", "abort"}, storageOk \in BOOLEAN :
       SettleAttempt(net, storageOk)
  \/ \E ms \in {1, KEY_CACHE_TTL_MS} : ClientTick(ms)

SpecFetch == InitFetch /\ [][NextFetch]_vars

\* handleSubmit of the login page as far as the await in fetchAdminStats: the
\* key typed in is stored and sent with GET /api/admin/stats; fetchAdminStats
\* throws without a request when the item it reads is falsy, and the catch
\* block stores the empty string.
LoginSubmit(apiKey) ==
  /\ admin.phase # "awaiting"
  /\ admin' = IF Falsy(setAdminApiKey(apiKey))
              THEN [key |-> setAdminApiKey(Str("")), phase |-> "failed",
                    error |-> MsgAuthRequired]
              ELSE [key |-> setAdminApiKey(apiKey), phase |-> "awaiting", error |-> ""]
  /\ lastResp' = NoResp
  /\ seen' = NothingSeen
  /\ UNCHANGED <<cfg, env, starts, keys, keyFiles, generated, proc, db, dbFile, jsonFile,
                 initPromise, migration, waiters, hits, now, admitted, window, answered,
                 clientKey, fetch>>

\* The server takes the request of the login, which carries the stored key
\* as x-admin-api-key and as the apiKey parameter
LoginRequest ==
  /\ admin.phase = "awaiting"
  /\ lastResp = NoResp
  /\ AdminStats(Undefined, getAdminApiKey, getAdminApiKey)

\* The rest of handleSubmit: the request gave a response or failed in the
\* network. With a response that is ok the page goes to the dashboard; any
\* error is shown and the catch block calls setAdminApiKey('').
LoginSettles(net) ==
  LET r == IF net = "response" THEN fetchAdminStats(getAdminApiKey, lastResp)
           ELSE [key |-> getAdminApiKey, threw |-> "Failed to fetch"]
  IN
  /\ admin.phase = "awaiting"
  /\ net = "response" => lastResp.op = "stats"
  /\ admin' = IF r.threw = ""
              THEN [key |-> r.key, phase |-> "in", error |-> ""]
              ELSE [key |-> setAdminApiKey(Str("")), phase |-> "failed", error |-> r.threw]
  /\ lastResp' = NoResp
  /\ seen' = NothingSeen
  /\ UNCHANGED <<cfg, env, starts, keys, keyFiles, generated, proc, db, dbFile, jsonFile,
                 initPromise, migration, waiters, hits, now, admitted, window, answered,
                 clientKey, fetch>>

\* ADMIN_API_KEY set or not, a ledger that is new, migrated or unreadable
InitLogin ==
  InitWith([requireSession : {FALSE}, rateMax : {LowRateLimitMax},
            adminApiKey : {Undefined, AdminKey}, frontendOrigin : {Undefined},
            privateKey : {Unset}, publicKey : {Unset}],
           {Startup(NoDbFile, NoJsonFile, FALSE, "login", {"c1"}),
            Startup(NoDbFile, LegacyJsonFile, FALSE, "login", {"c1"}),
            Startup(CorruptDbFile, NoJsonFile, FALSE, "login", {"c1"})})

\* The logins of one browser, against a server that takes payments
NextLogin ==
  \/ \E apiKey \in {AdminKey, OtherKey} : LoginSubmit(apiKey)
  \/ LoginRequest
  \/ \E net \in {"response", "failed"} : LoginSettles(net)
  \/ \E initOk \in BOOLEAN, writeOk \in WriteOutcomes : InitializeDatabase(initOk, writeOk)
  \/ \E c \in env.clients, body \in BodiesOf(env.workload), keyWrites \in KeyWriteOutcomes :
       ProcessPayment(c, Undefined, Undefined, body, keyWrites)
  \/ \E writeOk \in WriteOutcomes : ResumeWaiter(writeOk)

SpecLogin == InitLogin /\ [][NextLogin]_vars

\* handleSubmit of the checkout page: without a key it gives up, else it
\* encrypts the form's data and posts the ciphertext; when encryptPaymentData
\* throws nothing is sent.
SubmitPayment(c, paymentData, keyWrites) ==
  LET e == encryptPaymentData(paymentData, clientKey) IN
  /\ clientKey # Null
  /\ e.threw = ""
  /\ ProcessPayment(c, Undefined, SessionHeaderValue, e.ciphertext, keyWrites)

\* The handshake and the submission route, over restarts
NextKeys ==
  \/ \E keyWrites \in KeyWriteOutcomes : Restart(keyWrites)
  \/ \E c \in env.clients, body \in BodiesOf(env.workload), keyWrites \in KeyWriteOutcomes :
       ProcessPayment(c, Undefined, Undefined, body, keyWrites)
  \/ \E keyWrites \in KeyWriteOutcomes : GetCryptoKey(Undefined, Undefined, keyWrites)
  \/ \E writeOk \in WriteOutcomes : ResumeWaiter(writeOk)
  \/ \E initOk \in BOOLEAN, writeOk \in WriteOutcomes : InitializeDatabase(initOk, writeOk)

\* The client's handshake and checkout beside other submissions, over
\* restarts of the service
NextRoundTrip ==
  \/ \E keyWrites \in KeyWriteOutcomes : Restart(keyWrites)
  \/ \E keyWrites \in KeyWriteOutcomes :
       GetCryptoKey(Undefined, SessionHeaderValue, keyWrites)
  \/ FetchPublicKeyReturns
  \/ \E c \in env.clients, paymentData \in PaymentDatas, keyWrites \in KeyWriteOutcomes :
       SubmitPayment(c, paymentData, keyWrites)
  \/ \E c \in env.clients, body \in BodiesOf(env.workload), keyWrites \in KeyWriteOutcomes :
       ProcessPayment(c, Undefined, Undefined, body, keyWrites)
  \/ \E writeOk \in WriteOutcomes : ResumeWaiter(writeOk)
  \/ \E initOk \in BOOLEAN, writeOk \in WriteOutcomes : InitializeDatabase(initOk, writeOk)

Next ==
  \/ \E c \in env.clients, origin \in OriginsOf(env.workload), header \in Headers,
        body \in BodiesOf(env.workload), keyWrites \in KeyWriteOutcomes :
       ProcessPayment(c, origin, header, body, keyWrites)
  \/ \E origin \in OriginsOf(env.workload), transactionId \in TxnIds :
       GetTransaction(origin, transactionId)
  \/ \E origin \in OriginsOf(env.workload), f \in FiltersOf(env.workload) :
       GetTransactions(origin, f)
  \/ \E origin \in OriginsOf(env.workload), k \in AdminKeysOf(env.workload),
        f \in FiltersOf(env.workload) :
       AdminTransactions(origin, k[1], k[2], f)
  \/ \E origin \in OriginsOf(env.workload), k \in AdminKeysOf(env.workload) :
       AdminStats(origin, k[1], k[2])
  \/ \E origin \in OriginsOf(env.workload), header \in Headers,
        keyWrites \in KeyWriteOutcomes :
       GetCryptoKey(origin, header, keyWrites)
  \/ \E writeOk \in WriteOutcomes : ResumeWaiter(writeOk)
  \/ \E initOk \in BOOLEAN, writeOk \in WriteOutcomes : InitializeDatabase(initOk, writeOk)
  \/ \E writeOk \in WriteOutcomes : MigrateFromJSON(writeOk)
  \/ \E cs \in SUBSET env.clients : WindowElapse(cs)
  \/ Tick

\* The same, with statistics requests that were parked among the payment
\* handlers
NextStats ==
  \/ Next
  \/ \E k \in AdminKeysOf(env.workload) : ResumeStats(k[1], k[2])

Spec == Init /\ [][Next]_vars

SpecDefaultLimit == InitDefaultLimit /\ [][Next]_vars

SpecAllBodies == InitAllBodies /\ [][Next]_vars

SpecKeys == InitKeys /\ [][NextKeys]_vars

SpecRoundTrip == InitRoundTrip /\ [][NextRoundTrip]_vars

SpecOneKeyFile == InitOneKeyFile /\ [][NextKeys]_vars

SpecAdmin == InitAdmin /\ [][Next]_vars

SpecOrigins == InitOrigins /\ [][Next]_vars

SpecDiskFails == InitDiskFails /\ [][Next]_vars

SpecQueries == InitQueries /\ [][Next]_vars

SpecStats == InitStats /\ [][NextStats]_vars

SpecFields == InitFields /\ [][Next]_vars

SpecSession == InitSession /\ [][Next]_vars

(***************************************************************************)
(* Properties                                                              *)
(***************************************************************************)
\* The request just answered reached the handler with a body that decrypts
\* under the server's key to a JSON object.
Decrypted(resp) ==
  /\ resp.op = "pay"
  /\ "decrypt" \in resp.stages
  /\ CanDecrypt(keys.privateKey, resp.body)
  /\ resp.body.pt.form = "object"

\* The payload fails at least one of the six checks, in whatever order.
FailsValidation(p) ==
  \/ Falsy(p.fullName) \/ p.fullName.t # "str" \/ Trim(Chars(p.fullName.s)) = <<>>
  \/ Falsy(p.email) \/ ~isValidEmail(p.email)
  \/ Falsy(p.cardNumber) \/ ~isValidLuhn(p.cardNumber)
  \/ Falsy(p.expiry) \/ ~isValidExpiry(p.expiry, Today)
  \/ Falsy(p.cvv) \/ ~isValidCVV(p.cvv)
  \/ ~isValidAmount(p.amount)

FailsValidationOf == [p \in Payloads |-> FailsValidation(p)]

\* C1: a POST /api/process-payment whose decrypted payload fails any of the
\* validation checks is answered 400 with result "error", and the step that
\* answers it leaves the ledger, in memory and on disk, exactly as it was.
C1_InvalidPayloadRejected ==
  [][(Decrypted(lastResp') /\ FailsValidationOf[lastResp'.body.pt.obj])
       => /\ lastResp'.status = 400
          /\ lastResp'.result = "error"
          /\ lastResp'.message \in ValidationMessages
          /\ db' = db
          /\ dbFile' = dbFile
          /\ waiters' = waiters]_vars

\* An invalid amount was refused while the ledger already held records.
C1_Witness ==
  /\ Decrypted(lastResp)
  /\ FailsValidationOf[lastResp.body.pt.obj]
  /\ lastResp.message = MsgAmount
  /\ lastResp.status = 400
  /\ Len(db.rows) > 0

\* The rows of the ledger that carry an id
RowsWithId(rows, id) == {i \in 1..Len(rows) : rows[i].transactionId = id}

\* The number an amount stands for: Number(amount)
NumberOf(v) == IF v.t = "str" THEN ToNumber(v.s) ELSE v

C3_WriteFailureIsNonFatal ==
  (lastResp.op = "pay" /\ "save" \in lastResp.stages /\ lastResp.threw # "")
    => /\ lastResp.status = 200
       /\ lastResp.result = "success"
       /\ lastResp.transactionId \in TxnIds

\* A valid submission was answered success while the database was not
\* initialized.
C3_Witness ==
  /\ lastResp.op = "pay"
  /\ lastResp.threw = MsgNotInitialized
  /\ lastResp.status = 200
  /\ db.status = "null"

UniqueIds(rows) ==
  \A i, j \in 1..Len(rows) : rows[i].transactionId = rows[j].transactionId => i = j

\* C5: no two records of the ledger, in memory or in the file, share a
\* transactionId; a submission whose id is already in the ledger makes
\* saveTransaction throw 'Transaction ID already exists' and leaves the
\* ledger as it was, with one record of that id.
C5_TransactionIdsUnique ==
  [][/\ UniqueIds(db'.rows)
     /\ UniqueIds(dbFile'.rows)
     /\ (/\ lastResp' # lastResp
         /\ lastResp'.op = "pay"
         /\ "save" \in lastResp'.stages
         /\ db.status = "open"
         /\ HasId(db.rows, lastResp'.transactionId))
          => /\ lastResp'.threw = MsgDuplicate
             /\ db'.rows = db.rows
             /\ Cardinality(RowsWithId(db'.rows, lastResp'.transactionId)) = 1]_vars

\* With two records in the ledger a submission drew the id of one of them.
C5_Witness ==
  /\ lastResp.op = "pay"
  /\ lastResp.threw = MsgDuplicate
  /\ Len(db.rows) = 2
  /\ Cardinality(RowsWithId(db.rows, lastResp.transactionId)) = 1

\* C6 as stated: when saveTransaction has returned for a submission, the
\* database file on disk holds the record.
C6_ReturnedIsOnDisk ==
  (lastResp.op = "pay" /\ "save" \in lastResp.stages /\ lastResp.threw = "")
    => dbFile.exists /\ HasId(dbFile.rows, lastResp.transactionId)

IsPrefix(s, t) == Len(s) <= Len(t) /\ SubSeq(t, 1, Len(s)) = s

\* C7: the ledger only grows at its end: no step, be it a submission, a
\* query, a stats call or the startup migration, changes or removes a
\* record that the table or the database file already holds.
C7_AppendOnly ==
  [][/\ IsPrefix(db.rows, db'.rows)
     /\ IsPrefix(dbFile.rows, dbFile'.rows)]_vars

\* Statistics were read from a ledger holding a migrated record and a
\* submitted one.
C7_Witness ==
  /\ lastResp.op = "stats"
  /\ lastResp.stats.totalCount = 2
  /\ jsonFile.exists
  /\ db.rows[1].amount = Num(7)
  /\ answered[2].saved

\* The stages of a request behind the two middlewares
HandlerStages == {"handler", "decode", "keyread", "decrypt", "parse", "validate", "save"}

\* C8: of one client's submissions within one window at most max reach the
\* handler; each submission beyond them is answered 429 'Too many payment
\* attempts', runs no stage of the handler (no decrypt) and leaves the
\* ledger, the file and the parked handlers as they were.
C8_AtMostMaxReachHandler ==
  [][\A c \in env.clients :
       /\ admitted'[c] <= cfg.rateMax
       /\ (hits'[c] = hits[c] + 1 /\ hits[c] >= cfg.rateMax)
            => /\ lastResp'.op = "pay"
               /\ lastResp'.status = 429
               /\ lastResp'.message = MsgRate
               /\ lastResp'.stages \cap HandlerStages = {}
               /\ admitted'[c] = admitted[c]
               /\ db' = db
               /\ dbFile' = dbFile
               /\ waiters' = waiters
               /\ answered' = answered]_vars

\* Under the default limit a client's sixth submission in the window was
\* refused after five had reached the handler.
C8_Witness ==
  \E c \in env.clients :
    /\ cfg.rateMax = DefaultRateLimitMax
    /\ hits[c] = DefaultRateLimitMax + 1
    /\ admitted[c] = DefaultRateLimitMax
    /\ lastResp.op = "pay"
    /\ lastResp.status = 429

\* C9: the submission that takes a client's count in the window from max
\* to max + 1 is answered 429; when the window of a client that was
\* refused runs out its count starts over, and its next submission is
\* passed on to the handler.
C9_RefusedThenReadmitted ==
  [][\A c \in env.clients :
       /\ (hits[c] = cfg.rateMax /\ hits'[c] = cfg.rateMax + 1)
            => /\ lastResp'.op = "pay"
               /\ lastResp'.status = 429
               /\ lastResp'.message = MsgRate
               /\ window'[c] = "limited"
       /\ (window[c] = "limited" /\ window'[c] = "reopened") => hits'[c] = 0
       /\ (window[c] = "reopened" /\ hits'[c] = hits[c] + 1)
            => /\ lastResp'.status # 429
               /\ admitted'[c] = 1
               /\ window'[c] = "readmitted"]_vars

\* A client was refused, its window ran out, and its next submission was
\* answered by the handler.
C9_Witness ==
  \E c \in env.clients :
    /\ window[c] = "readmitted"
    /\ hits[c] = 1
    /\ lastResp.op = "pay"
    /\ "handler" \in lastResp.stages

C11_AdminCredentialGates ==
  [][lastResp'.op \in {"stats", "adminQuery"} =>
       IF Falsy(cfg.adminApiKey)
       THEN "ledger" \in lastResp'.stages /\ lastResp'.status \notin {401, 403}
       ELSE LET supplied == ~Falsy(seen'.adminHeader) \/ ~Falsy(seen'.adminQuery)
                providedKey == IF Falsy(seen'.adminHeader) THEN seen'.adminQuery
                               ELSE seen'.adminHeader
            IN /\ lastResp'.status = 401 <=> ~supplied
               /\ lastResp'.status = 403 <=> supplied /\ providedKey # cfg.adminApiKey
               /\ "ledger" \in lastResp'.stages <=> supplied /\ providedKey = cfg.adminApiKey
               /\ lastResp'.status = 401 => lastResp'.message = MsgAdminMissing
               /\ lastResp'.status = 403 => lastResp'.message = MsgAdminInvalid]_vars

\* The statistics were given for a credential that came as the apiKey
\* parameter, and a request with a wrong header beside the right
\* parameter is one the guard can refuse.
C11_Witness ==
  /\ cfg.adminApiKey = AdminKey
  /\ lastResp.op = "stats"
  /\ lastResp.status = 200
  /\ "ledger" \in lastResp.stages
  /\ Falsy(seen.adminHeader)
  /\ seen.adminQuery = AdminKey
  /\ Len(db.rows) > 0
  /\ adminAuth(OtherKey, AdminKey) = "403"

\* The stages of a request that run a handler: the handshake and the
\* submission handler, and the ledger's queries behind the read routes.
HandlerStagesReached(resp) == resp.stages \cap {"handler", "ledger", "save"}

\* C12 as stated: with FRONTEND_ORIGIN set, a request that names another
\* origin reaches no handler (handshake, submission, ledger); with it
\* unset, a request from any origin is let through and allowed its origin.
C12_OtherOriginNotAccepted ==
  [][lastResp' # NoResp =>
       IF Falsy(cfg.frontendOrigin)
       THEN seen'.allowOrigin = seen'.origin
       ELSE (~Falsy(seen'.origin) /\ seen'.origin # cfg.frontendOrigin)
              => HandlerStagesReached(lastResp') = {}]_vars

\* The texts a response to POST /api/process-payment can carry: fixed
\* strings of the source, none built from the request.
PaymentMessages ==
  ValidationMessages \cup {"", MsgMissing, MsgDecrypt, MsgSession, MsgRate}

\* C14 as stated: whatever a POST /api/process-payment is answered with,
\* on the success path and on every failure path, the answer carries only
\* a fixed message and the transaction id, and no line logged while
\* handling it shows content of the decrypted payload.
C14_NoPayloadInResponsesOrLogs ==
  lastResp.op = "pay" =>
    /\ lastResp.message \in PaymentMessages
    /\ lastResp.rows = <<>>
    /\ \A l \in lastResp.logs : "plaintext" \notin l.shows

\* The texts any response can carry as its message
ResponseMessages ==
  PaymentMessages \cup {MsgKey, MsgNotFound, MsgAdminMissing, MsgAdminInvalid}

\* C13: the private key is in no response and in no log line: the key a
\* response hands out is never the cached private key nor any private key
\* document, every message is one of the source's fixed texts, and no
\* logged line shows the private key, whatever was configured, stored or
\* generated and on every failure path.
C13_PrivateKeyNeverLeaves ==
  /\ lastResp.publicKey[1] # "PRIVATE"
  /\ ~KeyFalsy(keys.privateKey) => lastResp.publicKey # keys.privateKey
  /\ lastResp.message \in ResponseMessages
  /\ \A l \in lastResp.logs : "privateKey" \notin l.shows

\* A submission failed to decrypt under a loaded private key and the
\* failure was logged.
C13_Witness ==
  /\ keys.privateKey = KeyPair("K2").privateKey
  /\ lastResp.op = "pay"
  /\ lastResp.status = 400
  /\ "decrypt" \in lastResp.stages
  /\ lastResp.logs = {LogCaught({})}
  /\ starts > 1

\* What a start finds: both secrets set, both key files there
BothSecretsSet == ~KeyFalsy(cfg.privateKey) /\ ~KeyFalsy(cfg.publicKey)
BothFilesExist == keyFiles.privateKey # Missing /\ keyFiles.publicKey # Missing

\* A start takes the pair from the first source that applies: the two
\* secrets, else the two files, else a new pair that it writes to both
\* paths and caches unless a write throws.
FirstSourceWins ==
  IF BothSecretsSet
  THEN /\ proc' = "up"
       /\ keys' = Cache(DecodeSecret(cfg.privateKey), DecodeSecret(cfg.publicKey))
       /\ UNCHANGED <<keyFiles, generated>>
  ELSE IF BothFilesExist
  THEN /\ proc' = "up"
       /\ keys' = Cache(keyFiles.privateKey, keyFiles.publicKey)
       /\ UNCHANGED <<keyFiles, generated>>
  ELSE LET pair == KeyPair(GeneratedId(generated + 1)) IN
       /\ generated' = generated + 1
       /\ proc' = "up" =>
            /\ keys' = Cache(pair.privateKey, pair.publicKey)
            /\ keyFiles'.privateKey = pair.privateKey
            /\ keyFiles'.publicKey = pair.publicKey

\* C15 as stated: ensureKeyPair takes the pair from the first source that
\* applies (secrets, files, generation), and a generated private key is in
\* a file of mode 0600.
C15_FirstSourceAndMode ==
  [][starts' = starts + 1 =>
       /\ FirstSourceWins
       /\ (~BothSecretsSet /\ ~BothFilesExist /\ proc' = "up")
            => keyFiles'.privateMode = "0600"]_vars

\* A secret that is set and is neither a PEM document nor the base64 form
\* of one
Malformed(v) == ~KeyFalsy(v) /\ ~StartsWithBegin(DecodeSecret(v))

\* C16 as stated: a start that finds both secrets set but malformed does
\* not abort and does not keep them: it goes on to the key files when both
\* exist, and to generation otherwise.
C16_MalformedSecretsFallThrough ==
  [][(starts' = starts + 1 /\ Malformed(cfg.privateKey) /\ Malformed(cfg.publicKey)) =>
       /\ keys' # Cache(DecodeSecret(cfg.privateKey), DecodeSecret(cfg.publicKey))
       /\ IF BothFilesExist
          THEN proc' = "up" /\ keys' = Cache(keyFiles.privateKey, keyFiles.publicKey)
          ELSE generated' = generated + 1]_vars

\* C17: a restart that finds both key files, under the same environment,
\* leaves the files as they are, generates nothing, comes up, and
\* getPublicKey() returns what it returned in the run before.
C17_RestartKeepsStoredKeys ==
  [][(starts' = starts + 1 /\ BothFilesExist) =>
       /\ keyFiles' = keyFiles
       /\ generated' = generated
       /\ proc' = "up"
       /\ proc = "up" => keys'.publicKey = keys.publicKey]_vars

\* The third run of a service that found both key files at its first
\* start hands out the stored public key, the files untouched.
C17_Witness ==
  /\ starts = MaxStarts
  /\ ~BothSecretsSet
  /\ keyFiles = StoredKeys("K2")
  /\ generated = 0
  /\ lastResp.op = "key"
  /\ lastResp.status = 200
  /\ lastResp.publicKey = KeyPair("K2").publicKey

\* C18: while the process runs the cached pair stays what the start
\* resolved: no handshake and no submission changes cachedPrivateKey or
\* cachedPublicKey, nor what the two getters return, nor the key files.
C18_CachedKeysNeverChange ==
  [][starts' = starts =>
       /\ keys' = keys
       /\ keyFiles' = keyFiles
       /\ generated' = generated
       /\ proc = "up" =>
            /\ getPublicKey("ok").value = keys.publicKey
            /\ getPrivateKey("ok").value = keys.privateKey]_vars

\* A submission encrypted under the public key generated at the start was
\* decrypted and stored, the pair still the generated one.
C18_Witness ==
  /\ starts = 1
  /\ generated = 1
  /\ keys = Cache(KeyPair(GeneratedId(1)).privateKey, KeyPair(GeneratedId(1)).publicKey)
  /\ lastResp.op = "pay"
  /\ lastResp.status = 200
  /\ lastResp.body.key = keys.publicKey
  /\ Len(db.rows) > 0

\* C19: a GET /api/crypto/key that passes the session guard answers 200
\* with publicKey the value getPublicKey() returns, and whether it passes
\* or not it leaves the ledger (table and file), the parked handlers, the
\* cached pair, the key files and the rate-limit counters as they were.
C19_HandshakeHasNoSideEffect ==
  [][lastResp'.op = "key" =>
       /\ "handler" \in lastResp'.stages =>
            /\ lastResp'.status = 200
            /\ lastResp'.publicKey = getPublicKey("ok").value
            /\ lastResp'.publicKey = keys.publicKey
       /\ UNCHANGED <<db, dbFile, waiters, answered, keys, keyFiles, generated, hits,
                      admitted, window>>]_vars

\* The public key was handed out with a payment in the ledger and a
\* request counted by the limiter.
C19_Witness ==
  /\ lastResp.op = "key"
  /\ lastResp.status = 200
  /\ lastResp.publicKey = KeyPair("K1").publicKey
  /\ Len(db.rows) > 0
  /\ \E c \in env.clients : hits[c] > 0

\* A pair the service can work with: a private and a public key document
\* of one pair
Usable(cache) ==
  \E k \in KeyIds :
    cache.privateKey = KeyPair(k).privateKey /\ cache.publicKey = KeyPair(k).publicKey

\* C20 as stated: while the key store holds no usable keypair, a GET
\* /api/crypto/key that reaches the handler is answered with a 5xx error.
C20_NoUsableKeyIs5xx ==
  [][(lastResp'.op = "key" /\ "handler" \in lastResp'.stages /\ ~Usable(keys')) =>
       lastResp'.status >= 500]_vars

\* The stage a refused submission failed at: the last one it ran before
\* the check of the payload's fields
FailedAt(resp) ==
  IF resp.op # "pay" \/ resp.status # 400 \/ "validate" \in resp.stages THEN "none"
  ELSE IF "parse" \in resp.stages THEN "parse"
  ELSE IF "decrypt" \in resp.stages THEN "decrypt"
  ELSE IF "decode" \in resp.stages THEN "decode"
  ELSE "none"

\* A ciphertext that is no encryption under any key
Undecryptable == Body("garbage", NoKey, Plaintext("notjson", EmptyPayload))

\* C21 as stated: a submission that fails at base64 decode, at RSA decrypt
\* or at JSON parse is answered 400, nothing is persisted, and the answer
\* to a parse failure differs from the one the handler gives a ciphertext
\* that fails to decrypt.
C21_DecodeDecryptParseToldApart ==
  [][/\ FailedAt(lastResp') # "none" =>
          /\ lastResp'.result = "error"
          /\ db' = db
          /\ dbFile' = dbFile
          /\ waiters' = waiters
     /\ FailedAt(lastResp') = "parse" =>
          lastResp'.message # HandlerSync(Undecryptable, getPrivateKey("ok")).message]_vars

\* The six fields in the order of the specification, the check each must
\* pass and the reason reported for it
FieldOrder == <<"fullName", "email", "cardNumber", "expiry", "cvv", "amount">>
FieldFails(p, field) ==
  CASE field = "fullName" ->
         Falsy(p.fullName) \/ p.fullName.t # "str" \/ Trim(Chars(p.fullName.s)) = <<>>
    [] field = "email" -> Falsy(p.email) \/ ~isValidEmail(p.email)
    [] field = "cardNumber" -> Falsy(p.cardNumber) \/ ~isValidLuhn(p.cardNumber)
    [] field = "expiry" -> Falsy(p.expiry) \/ ~isValidExpiry(p.expiry, Today)
    [] field = "cvv" -> Falsy(p.cvv) \/ ~isValidCVV(p.cvv)
    [] field = "amount" -> ~isValidAmount(p.amount)
ReasonOf(field) ==
  CASE field = "fullName" -> MsgName
    [] field = "email" -> MsgEmail
    [] field = "cardNumber" -> MsgCard
    [] field = "expiry" -> MsgExpiry
    [] field = "cvv" -> MsgCvv
    [] field = "amount" -> MsgAmount
InvalidFields(p) == {i \in 1..Len(FieldOrder) : FieldFails(p, FieldOrder[i])}
EarliestInvalid(p) ==
  FieldOrder[CHOOSE i \in InvalidFields(p) : \A j \in InvalidFields(p) : i <= j]
InvalidFieldsOf == [p \in Payloads |-> InvalidFields(p)]

\* C22: a decrypted payload with at least one invalid field is answered
\* with the reason of the earliest invalid field in the order fullName,
\* email, cardNumber, expiry, cvv, amount, whatever else is invalid in it,
\* and the six fields have six different reasons.
C22_EarliestInvalidFieldReported ==
  /\ Cardinality({ReasonOf(FieldOrder[i]) : i \in 1..Len(FieldOrder)}) = 6
  /\ (Decrypted(lastResp) /\ InvalidFieldsOf[lastResp.body.pt.obj] # {}) =>
       /\ lastResp.status = 400
       /\ lastResp.message = ReasonOf(EarliestInvalid(lastResp.body.pt.obj))

\* A payload whose email, CVV and amount are all invalid was refused for
\* its email.
C22_Witness ==
  /\ Decrypted(lastResp)
  /\ InvalidFieldsOf[lastResp.body.pt.obj] = {2, 5, 6}
  /\ lastResp.status = 400
  /\ lastResp.message = MsgEmail

\* The request just answered was the client's: a ciphertext that
\* encryptPaymentData made of paymentData under the key the client holds
\* from the handshake
SentByClient(resp, paymentData) ==
  /\ resp.op = "pay"
  /\ "handler" \in resp.stages
  /\ clientKey # Null
  /\ encryptPaymentData(paymentData, clientKey).threw = ""
  /\ resp.body = encryptPaymentData(paymentData, clientKey).ciphertext

PageOf(rows, limit, offset) ==
  LET skip == IF offset = None THEN 0 ELSE offset
      last == IF limit = None \/ skip + limit > Len(rows) THEN Len(rows) ELSE skip + limit
  IN SubSeq(rows, skip + 1, last)

\* C24 as stated: a query is answered with the records that satisfy every
\* bound it supplies, ordered by timestamp descending, without the first
\* `offset` of them and with at most `limit`, for every combination of
\* filters supplied and omitted.
C24_QueryIsFilteredOrderedPaged ==
  (lastResp.op \in {"query", "adminQuery"} /\ lastResp.status = 200 /\ db.status = "open") =>
    LET f == lastResp.filters
        matching == SelectSeq(db.rows, LAMBDA r : Matches(r, f))
    IN \E o \in OrderedByTimestampDesc(matching) :
         lastResp.rows = PageOf(o, f.limit, f.offset)

\* The sum of the amounts of the first n records
RECURSIVE TotalOfFirst(_, _)
TotalOfFirst(rows, n) ==
  IF n = 0 THEN 0
  ELSE TotalOfFirst(rows, n - 1) + (IF rows[n].amount.t = "num" THEN rows[n].amount.n ELSE 0)

\* C25: GET /api/admin/stats answers with totalCount the number of records
\* of the ledger, totalAmount the sum of their amounts and averageAmount
\* their quotient, all three 0 for an empty ledger; the three are taken
\* from one ledger state, the one the step leaves untouched, also when the
\* answer falls between the ledger writes of parked submissions.
C25_StatsAreOneSnapshot ==
  [][(lastResp'.op = "stats" /\ lastResp'.status = 200) =>
       LET s == lastResp'.stats
           n == Len(db.rows)
       IN /\ db' = db
          /\ dbFile' = dbFile
          /\ waiters' = waiters
          /\ s.totalCount = n
          /\ s.totalAmount = TotalOfFirst(db.rows, n)
          /\ s.averageAmount.den # 0
          /\ s.averageAmount.num * n = s.totalAmount * s.averageAmount.den
          /\ n = 0 => s.totalAmount = 0 /\ s.averageAmount.num = 0]_vars

\* Statistics over a migrated and a submitted record were given while
\* another submission was still parked.
C25_Witness ==
  /\ lastResp.op = "stats"
  /\ lastResp.status = 200
  /\ lastResp.stats.totalCount = 2
  /\ lastResp.stats.totalAmount = 106
  /\ lastResp.stats.averageAmount = Ratio(106, 2)
  /\ waiters # <<>>

\* One value of the clock stands for one calendar day. The records of a
\* day, and the breakdown the specification describes: an entry for each
\* of the last 30 days that has records, the most recent day first.
RowsOfDay(rows, day) == SelectSeq(rows, LAMBDA r : r.timestamp = day)
DailyStat(rows, day) ==
  LET of == RowsOfDay(rows, day) IN
  [date |-> day, count |-> Len(of), totalAmount |-> TotalOfFirst(of, Len(of)),
   avgAmount |-> Ratio(TotalOfFirst(of, Len(of)), Len(of))]
RECURSIVE DailyStatsFrom(_, _, _)
DailyStatsFrom(rows, day, oldest) ==
  IF day < oldest \/ day < 0 THEN <<>>
  ELSE (IF RowsOfDay(rows, day) = <<>> THEN <<>> ELSE <<DailyStat(rows, day)>>)
         \o DailyStatsFrom(rows, day - 1, oldest)

\* C26 as stated: the statistics GET /api/admin/stats answers with carry a
\* daily breakdown of the last 30 days, one entry per day that has
\* records with that day's count, sum and average, most recent day first.
C26_StatsHaveDailyBreakdown ==
  (lastResp.op = "stats" /\ lastResp.status = 200) =>
    /\ "dailyStats" \in DOMAIN lastResp.stats
    /\ lastResp.stats.dailyStats = DailyStatsFrom(db.rows, now, now - 29)

\* The record a submission leaves in the ledger
RecordOf(resp, timestamp) ==
  LET data == JSONParse(resp.body.pt) IN
  Row(resp.transactionId, timestamp, RealAffinity(data.amount), OrNA(data.fullName),
      OrNA(data.cardNumber), OrNA(data.expiry), OrNA(data.cvv))

\* A valid submission goes to the ledger with an id no record has.
PersistsFreshId(before, resp) ==
  /\ resp.op = "pay"
  /\ "save" \in resp.stages
  /\ ~HasId(before, resp.transactionId)

\* C27 as stated: of valid submissions with distinct ids, whether they were
\* parked together or came one after the other, each is answered success
\* and adds exactly its one record to the ledger, the other records
\* untouched, so that the records at the end are one per submission in
\* every order.
C27_EachSubmissionAddsItsRecord ==
  [][PersistsFreshId(db.rows, lastResp') =>
       /\ lastResp'.status = 200
       /\ lastResp'.result = "success"
       /\ db'.rows = Append(db.rows, RecordOf(lastResp', now))]_vars

\* C27: while the ledger is open, of valid submissions with distinct ids,
\* whether they were parked together or came one after the other, each is
\* answered success and adds exactly its one record to the ledger, the
\* other records and the parked handlers behind it untouched; once no
\* handler is parked every id answered for has exactly one record.
C27_OpenLedgerAddsEachRecord ==
  [][/\ (PersistsFreshId(db.rows, lastResp') /\ db.status = "open") =>
          /\ lastResp'.status = 200
          /\ lastResp'.result = "success"
          /\ lastResp'.threw = ""
          /\ db'.rows = Append(db.rows, RecordOf(lastResp', now))
          /\ \/ waiters' = waiters
             \/ waiters # <<>> /\ waiters' = Tail(waiters)
     /\ (db'.status = "open" /\ waiters' = <<>> /\ initPromise' = "resolved") =>
          \A T \in TxnIds :
            (answered'[T].given /\ answered'[T].saved) =>
               Cardinality(RowsWithId(db'.rows, T)) = 1]_vars

\* Of two submissions parked together the first has added its record and
\* was answered while the second is still parked.
C27_Witness ==
  /\ lastResp.op = "pay"
  /\ lastResp.status = 200
  /\ lastResp.threw = ""
  /\ db.status = "open"
  /\ db.rows = <<RecordOf(lastResp, now)>>
  /\ waiters # <<>>
  /\ Head(waiters).transactionId # lastResp.transactionId

\* The digits of a string, first to last
DigitsOf(s) == SelectSeq(Chars(s), LAMBDA c : c \in Digits)

\* What the k-th digit from the right adds to the Luhn sum, the rightmost
\* being the first: itself, or when k is even its double, less 9 when the
\* double exceeds 9
LuhnTerm(digit, k) ==
  IF k % 2 = 1 THEN digit ELSE IF 2 * digit > 9 THEN 2 * digit - 9 ELSE 2 * digit

RECURSIVE LuhnSum(_, _)
LuhnSum(ds, k) ==
  IF k > Len(ds) THEN 0
  ELSE LuhnTerm(DigitVal(ds[Len(ds) - k + 1]), k) + LuhnSum(ds, k + 1)

CardNumberRule(s) ==
  /\ Len(DigitsOf(s)) \in 13..19
  /\ LuhnSum(DigitsOf(s), 1) % 10 = 0

\* The request just answered put a string to the card-number check: its
\* payload decrypted and passed the checks of the name and of the email.
CardNumberChecked(resp) ==
  /\ Decrypted(resp)
  /\ resp.message \notin {MsgName, MsgEmail}
  /\ JSONParse(resp.body.pt).cardNumber.t = "str"

\* C28: the card-number check of the server accepts a string exactly when
\* its digits, the other characters dropped, are 13 to 19 and their Luhn
\* sum (every second digit from the right doubled, less 9 when the double
\* exceeds 9) is a multiple of 10, and luhnCheck of the client says of the
\* string what isValidLuhn of the server says.
C28_CardNumberRuleAndAgreement ==
  CardNumberChecked(lastResp) =>
    LET cardNumber == JSONParse(lastResp.body.pt).cardNumber IN
    /\ (lastResp.message # MsgCard) <=> CardNumberRule(cardNumber.s)
    /\ isValidLuhn(cardNumber) <=> luhnCheck(cardNumber.s)
    /\ \A c \in CardNumbers : isValidLuhn(c) <=> luhnCheck(c.s)

\* A card number written in groups of four with spaces between them passed
\* the check, at the server and at the client.
C28_Witness ==
  /\ CardNumberChecked(lastResp)
  /\ JSONParse(lastResp.body.pt).cardNumber = CardSpaces
  /\ lastResp.message = MsgAmount
  /\ luhnCheck(CardSpaces.s)

\* The characters of a string that are not spaces, first to last
WithoutSpaces(s) == SelectSeq(Chars(s), LAMBDA c : c # " ")

\* C29 as stated: the card-number check refuses every string that still has
\* a character other than a digit once its spaces are dropped, and every
\* string that is then shorter than 13 or longer than 19 characters.
C29_NonDigitsAndBadLengthsRefused ==
  CardNumberChecked(lastResp) =>
    LET rest == WithoutSpaces(JSONParse(lastResp.body.pt).cardNumber.s) IN
    ((\E i \in 1..Len(rest) : rest[i] \notin Digits) \/ Len(rest) \notin 13..19) =>
       /\ lastResp.status = 400
       /\ lastResp.message = MsgCard

\* MM/YY: two digits, a slash, two digits and nothing else
HasFormMMYY(e) ==
  /\ Len(e) = 5
  /\ e[3] = "/"
  /\ \A i \in {1, 2, 4, 5} : e[i] \in Digits

\* The months from year 0 to the month of a calendar (year, month)
MonthsTo(year, month) == 12 * year + month

ExpiryRule(s, today) ==
  LET e == Chars(s) IN
  /\ HasFormMMYY(e)
  /\ LET MM == 10 * DigitVal(e[1]) + DigitVal(e[2])
         YY == 10 * DigitVal(e[4]) + DigitVal(e[5])
     IN /\ MM \in 1..12
        /\ MonthsTo(2000 + YY, MM) >= MonthsTo(today.year, today.month)

\* Calendar months a run may fall in, besides Today
Calendars ==
  {Today, [year |-> 2026, month |-> 10], [year |-> 2026, month |-> 12],
   [year |-> 2025, month |-> 12], [year |-> 2027, month |-> 1],
   [year |-> 2030, month |-> 12], [year |-> 2031, month |-> 1]}

\* The request just answered put a string to the expiry check: its payload
\* decrypted and passed the checks of the name, the email and the card
\* number.
ExpiryChecked(resp) ==
  /\ Decrypted(resp)
  /\ resp.message \notin {MsgName, MsgEmail, MsgCard}
  /\ JSONParse(resp.body.pt).expiry.t = "str"

\* C30: the expiry check accepts a string exactly when it has the form
\* MM/YY, MM is in 1..12 and (2000+YY, MM) is not before the current
\* calendar (year, month); so the current month is accepted, an earlier
\* one is refused, and months 00 and 13 are refused in every year.
C30_ExpiryRule ==
  ExpiryChecked(lastResp) =>
    LET expiry == JSONParse(lastResp.body.pt).expiry
        e == Chars(expiry.s)
    IN
    /\ (lastResp.message # MsgExpiry) <=> ExpiryRule(expiry.s, Today)
    /\ \A today \in Calendars :
         /\ isValidExpiry(expiry, today) <=> ExpiryRule(expiry.s, today)
         /\ (HasFormMMYY(e) /\ SubSeq(e, 1, 2) \in {<<"0", "0">>, <<"1", "3">>}) =>
              ~isValidExpiry(expiry, today)
         /\ (HasFormMMYY(e) /\ 2000 + DecimalValue(SubSeq(e, 4, 5)) = today.year) =>
              /\ DecimalValue(SubSeq(e, 1, 2)) = today.month => isValidExpiry(expiry, today)
              /\ DecimalValue(SubSeq(e, 1, 2)) < today.month => ~isValidExpiry(expiry, today)

\* An expiry date in the month of the run passed the check.
C30_Witness ==
  /\ ExpiryChecked(lastResp)
  /\ JSONParse(lastResp.body.pt).expiry = Str("11/26")
  /\ Today = [year |-> 2026, month |-> 11]
  /\ lastResp.message = MsgAmount

\* The members of a Transaction in the specification
TransactionFields ==
  {"transactionId", "timestamp", "amount", "cardholderName", "cardNumber", "expiry", "cvv",
   "email"}

\* C31 as stated: the record stored for a successful submission carries
\* the payload's email beside its amount, cardholderName, cardNumber,
\* expiry and cvv, and the records a query or a lookup by id returns have
\* all of these members.
C31_StoredRecordCarriesEmail ==
  [][/\ (PersistsFreshId(db.rows, lastResp') /\ db.status = "open") =>
          LET row == db'.rows[Len(db'.rows)]
              data == JSONParse(lastResp'.body.pt)
          IN /\ TransactionFields \subseteq DOMAIN row
             /\ row.email = data.email
             /\ row.cardholderName = data.fullName
             /\ row.cardNumber = data.cardNumber
             /\ row.expiry = data.expiry
             /\ row.cvv = data.cvv
     /\ lastResp'.op \in {"query", "getById"} =>
          \A i \in 1..Len(lastResp'.rows) :
            TransactionFields \subseteq DOMAIN lastResp'.rows[i]]_vars

\* A step in which a submission arrives: it is answered at once, or its
\* handler is parked at `await ensureInitialized()`.
Answered(before, resp, after) == resp.op = "pay" /\ after = before
Parked(before, after) == Len(after) = Len(before) + 1
Counted(before, after) ==
  \E c \in env.clients : after = [before EXCEPT ![c] = before[c] + 1]

IsBase64OfPem(v) == v[1] \in {"B64PRIVATE", "B64PUBLIC"}

\* The key a configured secret stands for in the specification: the text
\* itself when it is PEM, the document it decodes to when it is the base64
\* form of one, and the text itself again when decoding fails
SecretAsSpecified(v) ==
  IF StartsWithBegin(v) THEN v
  ELSE IF IsBase64OfPem(v) THEN <<IF v[1] = "B64PRIVATE" THEN "PRIVATE" ELSE "PUBLIC", v[2]>>
  ELSE v

\* C33 as stated: where both key secrets are configured, each is taken as
\* it is when it is PEM text and base64-decoded otherwise, and a value
\* whose base64 decoding fails is used verbatim as the key.
C33_SecretsRawDecodedOrVerbatim ==
  (~KeyFalsy(cfg.privateKey) /\ ~KeyFalsy(cfg.publicKey) /\ proc = "up") =>
     /\ keys.privateKey = SecretAsSpecified(cfg.privateKey)
     /\ keys.publicKey = SecretAsSpecified(cfg.publicKey)

\* Exactly one of the two key files is there.
OneKeyFile(files) == (files.privateKey = Missing) # (files.publicKey = Missing)

\* C34 as stated: a start without key secrets that finds exactly one of
\* the two key files generates a new pair and overwrites the file that is
\* there, so that the key loaded afterwards is not the one the file held.
C34_LoneKeyFileAlwaysOverwritten ==
  [][(/\ starts' = starts + 1
      /\ OneKeyFile(keyFiles)
      /\ KeyFalsy(cfg.privateKey) \/ KeyFalsy(cfg.publicKey))
       => LET pair == KeyPair(GeneratedId(generated')) IN
          /\ generated' = generated + 1
          /\ keyFiles'.privateKey = pair.privateKey
          /\ keyFiles'.publicKey = pair.publicKey
          /\ keys' = Cache(pair.privateKey, pair.publicKey)]_vars

\* C34: a start without key secrets that finds exactly one of the two key
\* files generates a new pair; when its writes go through, both files hold
\* the new pair, the file that was there is overwritten, and the pair in
\* memory is the new one; when a write fails the start fails and no key is
\* loaded.  Either way the key loaded is not the one the file held.
C34_LoneKeyFileIsReplaced ==
  [][(/\ starts' = starts + 1
      /\ OneKeyFile(keyFiles)
      /\ KeyFalsy(cfg.privateKey) \/ KeyFalsy(cfg.publicKey))
       => LET pair == KeyPair(GeneratedId(generated')) IN
          /\ generated' = generated + 1
          /\ pair.privateKey # keyFiles.privateKey
          /\ pair.publicKey # keyFiles.publicKey
          /\ proc' = "up" =>
               /\ keys' = Cache(pair.privateKey, pair.publicKey)
               /\ keyFiles'.privateKey = pair.privateKey
               /\ keyFiles'.publicKey = pair.publicKey
          /\ proc' = "down" => keys' = NullCache
          /\ keys'.privateKey # keyFiles.privateKey
          /\ keys'.publicKey # keyFiles.publicKey]_vars

\* The second start found one key file, left by a first start whose write
\* failed, and came up with the second pair generated, in memory and in
\* both files.
C34_Witness ==
  /\ starts = 2
  /\ generated = 2
  /\ proc = "up"
  /\ keys = Cache(KeyPair(GeneratedId(2)).privateKey, KeyPair(GeneratedId(2)).publicKey)
  /\ keyFiles.privateKey = keys.privateKey
  /\ keyFiles.publicKey = keys.publicKey

\* The header the request just answered came with, as far as the guard
\* read it, holds a value.
CameWithValue(resp) == resp.op \in {"pay", "key"} /\ ~Falsy(resp.header)

\* C35: with REQUIRE_SESSION_HEADER on, the guard refuses a request exactly
\* when its session header is absent or empty; whatever value a header
\* holds it lets the request through, so requests that differ only in the
\* value get the same decision, and none with a value is answered by the
\* guard.
C35_GuardIgnoresHeaderValue ==
  [][/\ cfg.requireSession =>
          \A h1, h2 \in Headers :
            (~Falsy(h1) /\ ~Falsy(h2)) =>
               /\ sessionGuard(h1) = sessionGuard(h2)
               /\ sessionGuard(h1) = "next"
     /\ (cfg.requireSession /\ CameWithValue(lastResp') /\ waiters' = waiters) =>
          /\ lastResp'.message # MsgSession
          /\ lastResp'.stages # {"session"}
          /\ lastResp'.op = "pay" => "ratelimit" \in lastResp'.stages
          /\ lastResp'.op = "key" => "handler" \in lastResp'.stages
     /\ (cfg.requireSession /\ lastResp'.op \in {"pay", "key"} /\ waiters' = waiters
           /\ Falsy(lastResp'.header)) =>
          lastResp'.message = MsgSession]_vars

\* With the guard on, a submission whose session header holds a value
\* other than the one the shop's client sends was stored.
C35_Witness ==
  /\ cfg.requireSession
  /\ lastResp.op = "pay"
  /\ lastResp.header = Str("s1")
  /\ lastResp.status = 200
  /\ Len(db.rows) > 0

\* initializeDatabase was tried and failed: initPromise is settled and the
\* ledger is not open (db is null, or it is open on a file that is no
\* database).
InitializationFailed == initPromise = "resolved" /\ db.status # "open"

\* C36: once the initialization of the database has failed nothing tries it
\* again: initPromise stays settled, db and the file stay as they are and
\* no migration starts; every valid submission from then on is answered
\* success with an id while nothing is stored, every query answers no
\* record, every lookup by id answers 404 and the statistics are zero.
C36_FailedInitializationIsFinal ==
  [][InitializationFailed =>
       /\ initPromise' = "resolved"
       /\ db' = db
       /\ dbFile' = dbFile
       /\ migration' = "idle"
       /\ (Decrypted(lastResp') /\ ValidateOf[JSONParse(lastResp'.body.pt)] = "") =>
            /\ lastResp'.status = 200
            /\ lastResp'.result = "success"
            /\ lastResp'.transactionId \in TxnIds
            /\ lastResp'.threw # ""
       /\ lastResp'.op \in {"query", "adminQuery"} =>
            lastResp'.status = 200 /\ lastResp'.rows = <<>>
       /\ lastResp'.op = "getById" =>
            lastResp'.status = 404 /\ lastResp'.message = MsgNotFound
       /\ lastResp'.op = "stats" =>
            lastResp'.status = 200 /\ lastResp'.stats = NoStats]_vars

\* After the initialization failed on a file that is no database a second
\* valid submission was answered success, the limiter's window having run
\* out in between, and the ledger held nothing.
C36_Witness ==
  /\ InitializationFailed
  /\ db.status = "corrupt"
  /\ lastResp.op = "pay"
  /\ lastResp.status = 200
  /\ lastResp.threw # ""
  /\ \E c \in env.clients : window[c] = "readmitted"
  /\ db.rows = <<>>

\* A handler read or wrote the ledger in this step: a parked one went on,
\* or a request was answered from the ledger.
LedgerTouchedByHandler(w, resp, wAfter) ==
  \/ w # <<>> /\ wAfter = Tail(w)
  \/ resp.op # "none" /\ ({"ledger", "save"} \cap resp.stages) # {}

\* C37: the migration of the legacy file, started by the initialization
\* that found the ledger empty, is over before any handler that awaited
\* ensureInitialized() reads or writes the ledger: while it is pending the
\* ledger is empty, no handler goes on and no request is answered, and its
\* step puts exactly the legacy records into the empty ledger; a handler
\* touches the ledger only with initPromise settled and no migration
\* pending.
C37_MigrationBeforeHandlers ==
  [][/\ migration = "pending" =>
          /\ initPromise = "resolved"
          /\ db.rows = <<>>
          /\ waiters' = waiters
          /\ lastResp' = NoResp
          /\ db' # db =>
               /\ migration' = "idle"
               /\ db'.rows = MigrateRows(<<>>, jsonFile.txns)
     /\ LedgerTouchedByHandler(waiters, lastResp', waiters') =>
          /\ migration = "idle"
          /\ initPromise = "resolved"
     /\ (migration' = "pending" /\ migration = "idle") => db'.rows = <<>>]_vars

\* The legacy records are in the ledger, nothing else is, and the handlers
\* that were parked during the initialization are still parked.
C37_Witness ==
  /\ migration = "idle"
  /\ initPromise = "resolved"
  /\ jsonFile.valid
  /\ db.rows # <<>>
  /\ db.rows = MigrateRows(<<>>, jsonFile.txns)
  /\ Len(waiters) = MaxInflight

\* The session cache holds an unexpired entry for the address: one written
\* for it no more than ten minutes ago.
CacheHolds(backendUrl) ==
  /\ clientKey # Null
  /\ fetch.url = backendUrl
  /\ fetch.clock <= fetch.expires

CacheUnchanged ==
  /\ clientKey' = clientKey
  /\ fetch'.url = fetch.url
  /\ fetch'.expires = fetch.expires

\* A call of fetchPublicKey begins in this step
FetchCalled ==
  /\ fetch.phase \in {"idle", "returned", "threw"}
  /\ fetch'.clock = fetch.clock
  /\ fetch' # fetch

\* A call with a usable entry returns its key with no request made and the
\* server not reached; any other call goes into the loop.
CallUsesCache ==
  FetchCalled =>
    /\ CacheUnchanged
    /\ fetch'.requests = 0
    /\ lastResp' = NoResp
    /\ keys' = keys
    /\ IF CacheHolds(fetch'.backendUrl)
       THEN fetch'.phase = "returned" /\ fetch'.result = clientKey
       ELSE fetch'.phase = "attempting" /\ fetch'.result = Null

\* Requests are made by a call in its loop only, one at a time, three at
\* most, and the server hands out its key only to a request under way.
AtMostThreeAttempts ==
  /\ fetch'.requests <= 3
  /\ (fetch'.requests # fetch.requests /\ ~FetchCalled) =>
       /\ fetch.phase = "attempting"
       /\ fetch'.requests = fetch.requests + 1
       /\ fetch'.phase = "inflight"
  /\ lastResp'.op = "key" => fetch.phase = "inflight" /\ fetch'.phase = "inflight"
  /\ fetch.phase \in {"returned", "threw"} => fetch'.requests <= fetch.requests

\* A failed attempt is followed by the next one while fewer than three were
\* made; the third failure raises the error of that attempt, the time-out
\* error when the attempt was aborted.
ThirdFailureRaises ==
  /\ (fetch.phase = "inflight" /\ fetch'.phase = "attempting") =>
       /\ fetch.requests < 3
       /\ CacheUnchanged
  /\ fetch'.phase = "threw" /\ fetch.phase # "threw" =>
       /\ fetch.phase = "inflight"
       /\ fetch.requests = 3
       /\ CacheUnchanged
       /\ fetch'.result = Text(fetch'.lastError)
       /\ fetch'.lastError \in
            {MsgTimedOut, MsgFailedToFetch}
              \cup (IF lastResp.op = "key" /\ ~KeyAccepted(lastResp)
                    THEN {fetchPublicKeyOneAttempt(lastResp).threw} ELSE {})

\* The attempt under way succeeds in this step
AttemptSucceeds == fetch.phase = "inflight" /\ fetch'.phase = "returned"

CachedNow ==
  /\ clientKey' = fetch'.result
  /\ fetch'.url = fetch.backendUrl
  /\ fetch'.expires = fetch.clock + 600000

\* The first success ends the call with the key the server sent
FirstSuccessReturns ==
  AttemptSucceeds =>
    /\ KeyAccepted(lastResp)
    /\ fetch'.result = lastResp.publicKey
    /\ fetch'.requests = fetch.requests

C39_FailedLoginLeavesNoKey ==
  admin.phase = "failed" => admin.key = JsNull /\ ~isAdminAuthenticated
====
